---- MODULE Spec2Model ----
(***************************************************************************)
(* Model of workout-planner-web: the plan generator, the history analysis  *)
(* and the upload of src/lib/plannerLogic.ts (the revision starting at     *)
(* line 1110) and the screen handlers that call them.                      *)
(*                                                                         *)
(* Time.  A Date is the number of hours since 00:00 local time of a Monday *)
(* (day 0), so day d starts at 24*d and d % 7 = 0 is a Monday.  A race     *)
(* date string "YYYY-MM-DD" is modelled by its day number.                 *)
(*                                                                         *)
(* Numbers.  The JavaScript code computes with doubles; the model computes *)
(* the same expressions exactly over the integers (zone percentages are    *)
(* kept in whole percent, glucose values in tenths of a unit, a trend as   *)
(* the fraction n/d).  Over the inputs enumerated here the floored double  *)
(* results and the exact results coincide.                                 *)
(*                                                                         *)
(* Strings are built character for character as the template literals of  *)
(* the code build them, and searched character for character as its       *)
(* regular expressions and includes() calls search them.                   *)
(***************************************************************************)
EXTENDS Integers, Sequences, FiniteSets, TLC

VARIABLES
    args,     \* the arguments every generatePlan call is made with
    today,    \* the value new Date() yields during the calls
    pc,       \* "idle": no call running; "weeks": inside the flatMap
    ctx,      \* the PlanContext of the running (or last) call
    i,        \* the week index the flatMap is at
    acc,      \* the events the flatMap has collected so far
    plans,    \* the lists returned by the finished calls, in call order
    apiKey,   \* the API key field of the screen, as character codes
    hpc,      \* where handleAnalyze / analyzeHistory stand
    inbox,    \* the responses the analysis has received from the API
    selected, \* analyzeHistory's mostRecentLong and mostRecentInterval
    result,   \* the AnalysisResult analyzeHistory is building
    home,     \* the screen state handleAnalyze sets
    screen,   \* the planner screen with three fuel rates
    upl,      \* uploadToIntervals: its position and the request log
    cal,      \* fetchCalendarData: its position, requests and results
    view      \* CalendarView: its state, its ref and its running loads

planVars == <<args, today, pc, ctx, i, acc, plans>>

analysisVars == <<apiKey, hpc, inbox, selected, result, home>>

calendarVars == <<cal, view>>

vars == <<args, today, pc, ctx, i, acc, plans,
          apiKey, hpc, inbox, selected, result, home, screen, upl,
          cal, view>>

(***************************************************************************)
(* Bounds of the model.                                                    *)
(***************************************************************************)
MaxWeeks == 8
MaxCalls == 2
MaxActivities == 2
MaxEvents == 2

(***************************************************************************)
(* Program constants.                                                      *)
(***************************************************************************)
DEFAULT_LTHR == 169

(***************************************************************************)
(* The inputs the calls are enumerated over.                               *)
(***************************************************************************)
TotalWeeksRange == 1..MaxWeeks
\* The race falls on any weekday of week MaxWeeks + 1 (days are counted
\* from a Monday), so every plan of up to MaxWeeks weeks starts on day >= 7.
RaceDays == (7 * MaxWeeks + 7)..(7 * MaxWeeks + 13)
\* today: from before the earliest plan start to after the race week; in
\* each week a Monday at 00:00 sharp, the same Monday at 11:00 and the
\* Friday at 11:00 (hours since that Monday 00:00).
TodayOffsets == {0, 11, 107}
TodayInstants == {168 * w + o : w \in 0..(MaxWeeks + 2), o \in TodayOffsets}
\* <<startKm, raceDist>>; the last pair starts above the race distance.
KmPairs == {<<8, 16>>, <<8, 5>>}
Prefixes == {"eco16"}
FuelPairs == {<<5, 10>>}

(***************************************************************************)
(* date-fns, on hours since Monday 00:00 of day 0.                         *)
(***************************************************************************)
addDays(d, n) == d + 24 * n

addWeeks(d, n) == d + 168 * n

startOfWeek(d) == d - (d % 168)

isBefore(a, b) == a < b

isSameDay(a, b) == (a \div 24) = (b \div 24)

setHours(d, h) == (d \div 24) * 24 + h

parseISO(dayNumber) == 24 * dayNumber

(***************************************************************************)
(* Text helpers.                                                           *)
(***************************************************************************)
CeilDiv(a, b) == -((-a) \div b)

PadStart2(n) == IF n < 10 THEN "0" \o ToString(n) ELSE ToString(n)

RECURSIVE JoinLines(_)
JoinLines(lines) ==
    IF Len(lines) = 0 THEN ""
    ELSE IF Len(lines) = 1 THEN lines[1]
    ELSE lines[1] \o "\n" \o JoinLines(Tail(lines))

Dashed(steps) == [k \in 1..Len(steps) |-> "- " \o steps[k]]

zones ==
    [easy   |-> [min |-> 72, max |-> 80],
     steady |-> [min |-> 77, max |-> 84],
     tempo  |-> [min |-> 88, max |-> 94],
     hard   |-> [min |-> 95, max |-> 100]]

\* note = "" stands for an absent note (both are falsy in the code).
formatStep(duration, minPct, maxPct, lthr, note) ==
    LET minBpm == (lthr * minPct) \div 100
        maxBpm == CeilDiv(lthr * maxPct, 100)
        core == duration \o " " \o ToString(minPct) \o "-" \o ToString(maxPct)
                \o "% LTHR (" \o ToString(minBpm) \o "-" \o ToString(maxBpm)
                \o " bpm)"
    IN  IF note # "" THEN note \o " " \o core ELSE core

createWorkoutText(title, warmup, mainSteps, cooldown, repeats) ==
    JoinLines(
        <<title, "", "Warmup", "- " \o warmup, "",
          IF repeats > 1 THEN "Main set " \o ToString(repeats) \o "x"
                         ELSE "Main set">>
        \o Dashed(mainSteps)
        \o <<"", "Cooldown", "- " \o cooldown, "">>)

\* slotId without the week number.
slotIdNoWeek(c, tag, weekNum) == c.prefix \o "-" \o tag

\* `${ctx.prefix}-${tag}-${weekNum}`
slotId(c, tag, weekNum) == c.prefix \o "-" \o tag \o "-" \o ToString(weekNum)

WorkoutEvent(start, name, description, id) ==
    [start_date_local |-> start, name |-> name, description |-> description,
     external_id |-> id, type |-> "Run"]

(***************************************************************************)
(* The week classification the generators share.                          *)
(***************************************************************************)
isRaceWeek(c, weekNum) == weekNum = c.totalWeeks

isTaper(c, weekNum) == weekNum = c.totalWeeks - 1

isRaceTest(c, weekNum) ==
    weekNum = c.totalWeeks - 2 \/ weekNum = c.totalWeeks - 3

\* isRecoveryWeek taken on the week index instead of the week number.
isRecoveryWeekByIndex(weekNum) == (weekNum - 1) % 4 = 0

isRecoveryWeek(weekNum) == weekNum % 4 = 0

\* raceGated without the second, same-day return.
raceGatedAfterOnly(c, date) ==
    ~isBefore(date, c.raceDate) /\ ~isSameDay(date, c.raceDate)

\* No date gate at all.
raceGatedNever(c, date) == FALSE

\* The date gate of the Tuesday, Thursday and Saturday generators:
\* TRUE when the workout is suppressed.
raceGated(c, date) ==
    \/ ~isBefore(date, c.raceDate) /\ ~isSameDay(date, c.raceDate)
    \/ isSameDay(date, c.raceDate)

stratHard(c) == "PUMP OFF - FUEL: " \o ToString(c.fuelInterval) \o "g/10m"

stratEasy(c) == "PUMP ON (-50%) - FUEL: " \o ToString(c.fuelSteady) \o "g/10m"

\* stratLong with a space between the number and its unit.
stratLongSpaced(c) ==
    "PUMP OFF - FUEL: " \o ToString(c.fuelSteady) \o " g/10m"

stratLong(c) == "PUMP OFF - FUEL: " \o ToString(c.fuelSteady) \o "g/10m"

warmupStep(c, strat) ==
    formatStep("10m", c.zones.easy.min, c.zones.easy.max, c.lthr, strat)

cooldownStep(c) ==
    formatStep("5m", c.zones.easy.min, c.zones.easy.max, c.lthr, "")

(***************************************************************************)
(* generateQualityRun: Tuesday, tempo on odd week indices, hills on even.  *)
(* A generator yields <<event>>, or <<>> for null.                        *)
(***************************************************************************)
\* tempoReps with the progress taken from the week number.
tempoRepsByWeekNum(c, weekIdx) ==
    IF isRaceWeek(c, weekIdx + 1) THEN 2
    ELSE IF isRaceTest(c, weekIdx + 1) THEN 3
    ELSE 3 + (((weekIdx + 1) * 3) \div c.totalWeeks)

tempoReps(c, weekIdx) ==
    IF isRaceWeek(c, weekIdx + 1) THEN 2
    ELSE IF isRaceTest(c, weekIdx + 1) THEN 3
    ELSE 3 + ((weekIdx * 3) \div c.totalWeeks)

tempoSteps(c, weekIdx) ==
    IF isRaceWeek(c, weekIdx + 1)
    THEN <<formatStep("5m", c.zones.tempo.min, c.zones.tempo.max, c.lthr, ""),
           formatStep("2m", c.zones.easy.min, c.zones.easy.max, c.lthr, "")>>
    ELSE <<formatStep("8m", c.zones.tempo.min, c.zones.tempo.max, c.lthr, ""),
           formatStep("2m", c.zones.easy.min, c.zones.easy.max, c.lthr, "")>>

hillReps(c, weekIdx) ==
    IF isRaceWeek(c, weekIdx + 1) THEN 2
    ELSE IF isRaceTest(c, weekIdx + 1) THEN 4
    ELSE 6

hillSteps(c) ==
    <<formatStep("2m", c.zones.hard.min, c.zones.hard.max, c.lthr, "Uphill"),
      formatStep("2m", c.zones.easy.min, c.zones.easy.max, c.lthr, "Downhill")>>

generateQualityRun(c, weekIdx, weekStart) ==
    LET date == addDays(weekStart, 1)
        weekNum == weekIdx + 1
        wu == warmupStep(c, stratHard(c))
        cd == cooldownStep(c)
        prefixName == "W" \o PadStart2(weekNum) \o " Tue"
        isTempo == weekIdx % 2 # 0
        shakeout == IF isRaceWeek(c, weekNum) THEN " [SHAKEOUT]" ELSE ""
    IN  IF raceGated(c, date) THEN <<>>
        ELSE IF isTempo
        THEN <<WorkoutEvent(
                 setHours(date, 12),
                 prefixName \o " Tempo " \o c.prefix \o shakeout,
                 createWorkoutText(stratHard(c), wu, tempoSteps(c, weekIdx),
                                   cd, tempoReps(c, weekIdx)),
                 slotId(c, "tue", weekNum))>>
        ELSE <<WorkoutEvent(
                 setHours(date, 12),
                 prefixName \o " Hills " \o c.prefix \o shakeout,
                 createWorkoutText(stratHard(c), wu, hillSteps(c),
                                   cd, hillReps(c, weekIdx)),
                 slotId(c, "tue", weekNum))>>

(***************************************************************************)
(* generateEasyRun: Thursday.                                              *)
(***************************************************************************)
easyDuration(c, weekIdx) ==
    IF isRaceWeek(c, weekIdx + 1) THEN 20
    ELSE IF isRaceTest(c, weekIdx + 1) THEN 30
    ELSE 40 + ((weekIdx * 20) \div c.totalWeeks)

generateEasyRun(c, weekIdx, weekStart) ==
    LET date == addDays(weekStart, 3)
        weekNum == weekIdx + 1
        wu == warmupStep(c, stratEasy(c))
        cd == cooldownStep(c)
        name == "W" \o PadStart2(weekNum) \o " Thu Easy " \o c.prefix
                \o (IF isRaceWeek(c, weekNum) THEN " [SHAKEOUT]" ELSE "")
    IN  IF raceGated(c, date) THEN <<>>
        ELSE <<WorkoutEvent(
                 setHours(date, 12),
                 name,
                 createWorkoutText(
                     stratEasy(c), wu,
                     <<formatStep(ToString(easyDuration(c, weekIdx)) \o "m",
                                  c.zones.easy.min, c.zones.easy.max,
                                  c.lthr, "")>>,
                     cd, 1),
                 slotId(c, "thu", weekNum))>>

(***************************************************************************)
(* generateBonusRun: Saturday.                                             *)
(***************************************************************************)
generateBonusRun(c, weekIdx, weekStart) ==
    LET date == addDays(weekStart, 5)
        weekNum == weekIdx + 1
        wu == warmupStep(c, stratEasy(c))
        cd == cooldownStep(c)
        name == "W" \o PadStart2(weekNum) \o " Sat Bonus (Optional) "
                \o c.prefix
    IN  IF raceGated(c, date) THEN <<>>
        ELSE <<WorkoutEvent(
                 setHours(date, 12),
                 name,
                 createWorkoutText(
                     stratEasy(c), wu,
                     <<formatStep("30m", c.zones.easy.min, c.zones.easy.max,
                                  c.lthr, "")>>,
                     cd, 1),
                 slotId(c, "sat", weekNum))>>

(***************************************************************************)
(* generateLongRun: Sunday, or the race-day event in the last week.        *)
(***************************************************************************)
\* rampKm without the Math.min against the race distance.
rampKmUnclamped(c, weekIdx) ==
    LET divisor == IF c.totalWeeks - 4 > 1 THEN c.totalWeeks - 4 ELSE 1
    IN  c.startKm + (((c.raceDist - c.startKm) * weekIdx) \div divisor)

rampKm(c, weekIdx) ==
    LET divisor == IF c.totalWeeks - 4 > 1 THEN c.totalWeeks - 4 ELSE 1
        ramp == c.startKm + (((c.raceDist - c.startKm) * weekIdx) \div divisor)
    IN  IF ramp < c.raceDist THEN ramp ELSE c.raceDist

\* km after the three overrides, applied in the order of the code: a later
\* one wins.
longRunKm(c, weekIdx) ==
    LET km0 == rampKm(c, weekIdx)
        km1 == IF isRecoveryWeek(weekIdx + 1) THEN c.startKm ELSE km0
        km2 == IF isTaper(c, weekIdx + 1) THEN c.raceDist \div 2 ELSE km1
    IN  IF isRaceTest(c, weekIdx + 1) THEN c.raceDist ELSE km2

\* longRunType with the recovery override applied last.
longRunTypeRecoveryLast(c, weekIdx) ==
    LET type0 == ""
        type1 == IF isTaper(c, weekIdx + 1) THEN " [TAPER]" ELSE type0
        type2 == IF isRaceTest(c, weekIdx + 1) THEN " [RACE TEST]" ELSE type1
    IN  IF isRecoveryWeek(weekIdx + 1) THEN " [RECOVERY]" ELSE type2

longRunType(c, weekIdx) ==
    LET type0 == ""
        type1 == IF isRecoveryWeek(weekIdx + 1) THEN " [RECOVERY]" ELSE type0
        type2 == IF isTaper(c, weekIdx + 1) THEN " [TAPER]" ELSE type1
    IN  IF isRaceTest(c, weekIdx + 1) THEN " [RACE TEST]" ELSE type2

raceDayEvent(c) ==
    WorkoutEvent(
        setHours(c.raceDate, 10),
        "RACE DAY " \o c.prefix,
        "RACE DAY! " \o ToString(c.raceDist) \o "km. " \o stratLong(c)
            \o "\n\nGood luck!",
        c.prefix \o "-race")

longRunEvent(c, weekIdx, date) ==
    LET weekNum == weekIdx + 1
        km == longRunKm(c, weekIdx)
        wu == warmupStep(c, stratLong(c))
        cd == cooldownStep(c)
    IN  WorkoutEvent(
            setHours(date, 10),
            "W" \o PadStart2(weekNum) \o " Sun LR (" \o ToString(km)
                \o "km)" \o longRunType(c, weekIdx) \o " " \o c.prefix,
            createWorkoutText(
                stratLong(c) \o " (Trail)", wu,
                <<formatStep(ToString(km) \o "km", c.zones.steady.min,
                             c.zones.steady.max, c.lthr, "")>>,
                cd, 1),
            slotId(c, "sun", weekNum))

\* generateLongRun with the date gate ahead of the race-week branch.
generateLongRunGateFirst(c, weekIdx, weekStart) ==
    IF ~isBefore(addDays(weekStart, 6), c.raceDate) THEN <<>>
    ELSE IF isRaceWeek(c, weekIdx + 1) THEN <<raceDayEvent(c)>>
    ELSE <<longRunEvent(c, weekIdx, addDays(weekStart, 6))>>

generateLongRun(c, weekIdx, weekStart) ==
    IF isRaceWeek(c, weekIdx + 1) THEN <<raceDayEvent(c)>>
    ELSE IF ~isBefore(addDays(weekStart, 6), c.raceDate) THEN <<>>
    ELSE <<longRunEvent(c, weekIdx, addDays(weekStart, 6))>>

\* ctx.raceDate.setHours(10, 0, 0) in the race-week branch changes the
\* Date object the context holds.
raceDateAfterLongRun(c, weekIdx) ==
    IF isRaceWeek(c, weekIdx + 1) THEN setHours(c.raceDate, 10) ELSE c.raceDate

(***************************************************************************)
(* generatePlan.                                                           *)
(***************************************************************************)
newContext(a) ==
    [fuelInterval    |-> a.fuelInterval,
     fuelSteady      |-> a.fuelSteady,
     raceDate        |-> parseISO(a.raceDateStr),
     raceDist        |-> a.raceDist,
     prefix          |-> a.prefix,
     totalWeeks      |-> a.totalWeeks,
     startKm         |-> a.startKm,
     lthr            |-> a.lthr,
     planStartMonday |-> addWeeks(startOfWeek(parseISO(a.raceDateStr)),
                                  -(a.totalWeeks - 1)),
     zones           |-> zones]

\* A result array kept outside the function and never cleared.
leftoverEvents == acc

\* The array a flatMap starts from.
freshEvents == <<>>

\* weekElapsed without the 7 days: a week counts as elapsed once begun.
weekElapsedFromStart(weekStart, now) == isBefore(weekStart, now)

\* weekElapsed with "not after" in place of "strictly before".
weekElapsedInclusive(weekStart, now) == ~isBefore(now, addDays(weekStart, 7))

weekElapsed(weekStart, now) == isBefore(addDays(weekStart, 7), now)

weekStartOf(c, weekIdx) == addWeeks(c.planStartMonday, weekIdx)

(***************************************************************************)
(* The screen before any handler has run.  null is JavaScript's null; an   *)
(* API key is the sequence of its UTF-16 code units.                       *)
(***************************************************************************)
null == [null |-> TRUE]

NoKey == <<>>

NoResponses == [activities |-> null, longRun |-> null, interval |-> null]

NoneSelected == [long |-> null, interval |-> null]

\* useState(...) of Home.
HomeInit ==
    [fuelInterval |-> 5, fuelSteady |-> 10,
     longRunAnalysis |-> null, intervalAnalysis |-> null,
     isAnalyzing |-> FALSE, isUploading |-> FALSE, statusMsg |-> ""]

\* useState(...) of PlannerScreen.
ScreenInit ==
    [pc |-> "idle", result |-> null,
     fuelInterval |-> 5, fuelLong |-> 10, fuelEasy |-> 8,
     longRunAnalysis |-> null, easyRunAnalysis |-> null,
     intervalAnalysis |-> null,
     isAnalyzing |-> FALSE, statusMsg |-> "",
     isUploading |-> FALSE, uploads |-> <<>>, log |-> <<>>]

UploadInit ==
    [pc |-> "idle", revision |-> 3, events |-> <<>>, payload |-> <<>>,
     log |-> <<>>, response |-> null, outcome |-> null,
     handler |-> "", now |-> 0, store |-> {}]

AnalysisAtRest ==
    /\ apiKey = NoKey
    /\ hpc = "idle"
    /\ inbox = NoResponses
    /\ selected = NoneSelected
    /\ result = null
    /\ home = HomeInit

ScreenAtRest == screen = ScreenInit

UploadAtRest == upl = UploadInit

\* fetchCalendarData before it is called.
CalendarInit ==
    [pc |-> "idle", activities |-> null, events |-> null,
     runActivities |-> <<>>, plannedEvents |-> <<>>, i |-> 0,
     details |-> <<>>, log |-> <<>>, allDetails |-> <<>>,
     outcome |-> null]

CalendarAtRest == cal = CalendarInit

\* An absent optional value, and a present one.
none == <<>>

some(v) == <<v>>

\* The day CalendarView is opened on (new Date()), in days: months are
\* taken as 30 days long, month m being the days 30 m to 30 m + 29, and
\* day 0 is a Monday.
ViewToday == 310

\* useState(...) and useRef(null) of CalendarView before it is mounted.
\* loads holds the fetchCalendarData calls that have not settled, requested
\* the range of the latest call of loadCalendarData, lastSettled the call
\* that settled last, retrieved whether every call so far came back with
\* both of its lists, and overlapped whether the user navigated, retried or
\* asked for more while a call had not settled.
ViewInit ==
    [pc |-> "unmounted", viewMode |-> "month",
     currentMonth |-> ViewToday, selectedWeek |-> ViewToday,
     events |-> <<>>, isLoading |-> FALSE, error |-> none,
     loadedRange |-> null, isLoadingMore |-> FALSE,
     loads |-> <<>>, requested |-> null, lastSettled |-> null,
     retrieved |-> TRUE, overlapped |-> FALSE, navigations |-> 0]

ViewAtRest == view = ViewInit

Init ==
    /\ \E rd \in RaceDays, tw \in TotalWeeksRange, km \in KmPairs,
          p \in Prefixes, f \in FuelPairs :
          args = [fuelInterval |-> f[1], fuelSteady |-> f[2],
                  raceDateStr |-> rd, raceDist |-> km[2], prefix |-> p,
                  totalWeeks |-> tw, startKm |-> km[1],
                  lthr |-> DEFAULT_LTHR]
    /\ today \in TodayInstants
    /\ pc = "idle"
    /\ ctx = newContext(args)
    /\ i = 0
    /\ acc = <<>>
    /\ plans = <<>>
    /\ AnalysisAtRest /\ ScreenAtRest /\ UploadAtRest
    /\ CalendarAtRest /\ ViewAtRest

\* generatePlan is entered: the context is built from the arguments.
Call ==
    /\ pc = "idle"
    /\ Len(plans) < MaxCalls
    /\ ctx' = newContext(args)
    /\ i' = 0
    /\ acc' = freshEvents
    /\ pc' = "weeks"
    /\ UNCHANGED <<args, today, plans>>
    /\ UNCHANGED <<analysisVars, screen, upl>>
    /\ UNCHANGED calendarVars

\* One flatMap callback for a week that has fully elapsed.
WeekSkipped ==
    /\ pc = "weeks"
    /\ i < ctx.totalWeeks
    /\ weekElapsed(weekStartOf(ctx, i), today)
    /\ i' = i + 1
    /\ UNCHANGED <<args, today, pc, ctx, acc, plans>>
    /\ UNCHANGED <<analysisVars, screen, upl>>
    /\ UNCHANGED calendarVars

\* One flatMap callback for any other week: the four generators in order.
WeekEmitted ==
    /\ pc = "weeks"
    /\ i < ctx.totalWeeks
    /\ ~weekElapsed(weekStartOf(ctx, i), today)
    /\ LET weekStart == weekStartOf(ctx, i)
           q == generateQualityRun(ctx, i, weekStart)
           e == generateEasyRun(ctx, i, weekStart)
           b == generateBonusRun(ctx, i, weekStart)
           l == generateLongRun(ctx, i, weekStart)
       IN  /\ acc' = acc \o q \o e \o b \o l
           /\ ctx' = [ctx EXCEPT !.raceDate = raceDateAfterLongRun(ctx, i)]
    /\ i' = i + 1
    /\ UNCHANGED <<args, today, pc, plans>>
    /\ UNCHANGED <<analysisVars, screen, upl>>
    /\ UNCHANGED calendarVars

\* The flatMap is through: generatePlan returns.
Return ==
    /\ pc = "weeks"
    /\ i = ctx.totalWeeks
    /\ plans' = Append(plans, acc)
    /\ pc' = "idle"
    /\ UNCHANGED <<args, today, ctx, i, acc>>
    /\ UNCHANGED <<analysisVars, screen, upl>>
    /\ UNCHANGED calendarVars

Next == Call \/ WeekSkipped \/ WeekEmitted \/ Return

Spec == Init /\ [][Next]_vars

(***************************************************************************)
(* What the claims are stated over: the arguments, today, and the list the *)
(* call that has just returned produced.  The calendar is recomputed here  *)
(* from the arguments alone.                                               *)
(***************************************************************************)
Returned == pc = "idle" /\ Len(plans) > 0

LastPlan == plans[Len(plans)]

EventsOf(p) == {p[k] : k \in 1..Len(p)}

RaceDay == args.raceDateStr

RaceMidnight == 24 * RaceDay

\* Monday 00:00 of plan week w (w = 0 is the first week).
WeekMonday(w) ==
    24 * (RaceDay - (RaceDay % 7) - 7 * (args.totalWeeks - 1 - w))

WeekIndices == 0..(args.totalWeeks - 1)

Elapsed(w) == WeekMonday(w) + 168 < today

RaceId == args.prefix \o "-race"

IdOf(tag, weekNum) ==
    args.prefix \o "-" \o tag \o "-" \o ToString(weekNum)

WithId(p, id) == {e \in EventsOf(p) : e.external_id = id}

OnOrAfterRaceDate(e) == e.start_date_local >= RaceMidnight

OnRaceDate(e) == e.start_date_local \div 24 = RaceDay

\* C1, first half: nothing but a race-day event is dated on or after the
\* race date, and a race-day event is dated on the race date.
OnlyRaceDayFromRaceDate(p) ==
    \A e \in EventsOf(p) :
        /\ OnOrAfterRaceDate(e) => e.external_id = RaceId
        /\ e.external_id = RaceId => OnRaceDate(e)

NumRaceEvents(p) == Cardinality({k \in 1..Len(p) : p[k].external_id = RaceId})

\* C1 as claimed: every returned plan holds no event dated on or after the
\* race date except exactly one race-day event, dated on the race date.
C1_ExactlyOneRaceDayAlways ==
    Returned => /\ OnlyRaceDayFromRaceDate(LastPlan)
                /\ NumRaceEvents(LastPlan) = 1

\* C1 as amended: every returned plan holds no event dated on or after the
\* race date except the race-day event, dated on the race date; there is
\* exactly one race-day event when the race week has not fully elapsed
\* (its Monday + 7 days is not strictly before today) and none otherwise.
C1_RaceDayOnlyFromRaceDate ==
    Returned =>
        /\ OnlyRaceDayFromRaceDate(LastPlan)
        /\ NumRaceEvents(LastPlan)
               = (IF Elapsed(args.totalWeeks - 1) THEN 0 ELSE 1)

\* A plan for a race on a Tuesday has returned with its race-day event and
\* with the Tuesday workout of the race week suppressed.
C1_Witness ==
    /\ Returned
    /\ RaceDay % 7 = 1
    /\ NumRaceEvents(LastPlan) = 1
    /\ WithId(LastPlan, IdOf("tue", args.totalWeeks)) = {}
    /\ Len(LastPlan) > 1

\* C2: a returned plan never holds a Sunday long run of the final week, and
\* whenever the final week is generated (it has not fully elapsed) the plan
\* holds the event {prefix}-race at 10:00 of the race date, on whatever
\* weekday the race falls (no date gate applies to it).
C2_RaceDayReplacesFinalLongRun ==
    Returned =>
        /\ WithId(LastPlan, IdOf("sun", args.totalWeeks)) = {}
        /\ ~Elapsed(args.totalWeeks - 1) =>
               \E e \in WithId(LastPlan, RaceId) :
                   /\ e.start_date_local = RaceMidnight + 10
                   /\ e.name = "RACE DAY " \o args.prefix

\* A plan for a race on a Wednesday has returned with the race-day event in
\* it, after the Tuesday workout of that week.
C2_Witness ==
    /\ Returned
    /\ RaceDay % 7 = 2
    /\ WithId(LastPlan, RaceId) # {}
    /\ WithId(LastPlan, IdOf("tue", args.totalWeeks)) # {}

\* The workouts of week w a returned plan must hold when the week is
\* generated: Tuesday, Thursday and Saturday at 12:00 when that day is
\* before the race date, the Sunday long run at 10:00 in every week but
\* the last, the race-day event in the last.
SlotPresent(p, tag, w, dayOffset, hour) ==
    \E e \in WithId(p, IdOf(tag, w + 1)) :
        e.start_date_local = WeekMonday(w) + 24 * dayOffset + hour

WeekGenerated(p, w) ==
    /\ \A slot \in {<<"tue", 1>>, <<"thu", 3>>, <<"sat", 5>>} :
           SlotPresent(p, slot[1], w, slot[2], 12)
               <=> (WeekMonday(w) + 24 * slot[2] < RaceMidnight)
    /\ SlotPresent(p, "sun", w, 6, 10) <=> (w + 1 # args.totalWeeks)
    /\ (WithId(p, RaceId) # {} /\ w + 1 = args.totalWeeks)
           <=> (w + 1 = args.totalWeeks)

WeekAbsent(p, w) ==
    /\ \A tag \in {"tue", "thu", "sat", "sun"} :
           WithId(p, IdOf(tag, w + 1)) = {}
    /\ \A e \in EventsOf(p) :
           ~(WeekMonday(w) <= e.start_date_local
               /\ e.start_date_local < WeekMonday(w) + 168)

\* C3: a returned plan holds no event of a week whose weekStart + 7 days is
\* strictly before today, and holds the date-gated workouts of every other
\* one of the totalWeeks weeks.
C3_ElapsedWeeksSkippedOthersEmitted ==
    Returned =>
        \A w \in WeekIndices :
            IF Elapsed(w) THEN WeekAbsent(LastPlan, w)
                          ELSE WeekGenerated(LastPlan, w)

\* A plan has returned whose first week had fully elapsed and was skipped,
\* while a later week was generated; today is a Monday at 00:00, the instant
\* at which the week that just ended is still generated.
C3_Witness ==
    /\ Returned
    /\ Elapsed(0)
    /\ today % 168 = 0
    /\ \E w \in WeekIndices :
           /\ WeekMonday(w) + 168 = today
           /\ WithId(LastPlan, IdOf("tue", w + 1)) # {}

CurrentWeek(w) == WeekMonday(w) <= today /\ today < WeekMonday(w) + 168

InWeek(e, w) ==
    /\ WeekMonday(w) <= e.start_date_local
    /\ e.start_date_local < WeekMonday(w) + 168

\* C4 as claimed: of the plan week that contains today, a returned plan
\* holds only events whose day is today or later.
C4_CurrentWeekOnlyFromToday ==
    Returned =>
        \A w \in WeekIndices :
            CurrentWeek(w) =>
                \A e \in EventsOf(LastPlan) :
                    InWeek(e, w) =>
                        e.start_date_local \div 24 >= today \div 24

\* C4 as amended: of the plan week that contains today, a returned plan
\* holds every workout that passes the race-date gate, those dated before
\* today included: generatePlan filters whole weeks only, never single
\* days, against today.
C4_CurrentWeekGeneratedWhole ==
    Returned =>
        \A w \in WeekIndices :
            CurrentWeek(w) => WeekGenerated(LastPlan, w)

\* On a Friday a plan has returned that holds the Tuesday workout of the
\* running week, dated before today.
C4_Witness ==
    /\ Returned
    /\ \E w \in WeekIndices :
           /\ CurrentWeek(w)
           /\ today = WeekMonday(w) + 107
           /\ \E e \in WithId(LastPlan, IdOf("tue", w + 1)) :
                  e.start_date_local < today

\* C5: the external ids of a returned plan are pairwise distinct, and each
\* is {prefix}-race or {prefix}-{tue|thu|sat|sun}-{n} for a week number n
\* of the plan (so at most one event is the race-day event and no two
\* events share a weekday and week number).
C5_ExternalIdsUnique ==
    Returned =>
        /\ \A k, l \in 1..Len(LastPlan) :
               k # l => LastPlan[k].external_id # LastPlan[l].external_id
        /\ \A e \in EventsOf(LastPlan) :
               \/ e.external_id = RaceId
               \/ \E tag \in {"tue", "thu", "sat", "sun"},
                     n \in 1..args.totalWeeks :
                       e.external_id = IdOf(tag, n)

\* A plan of at least two generated weeks has returned, with the race-day
\* event and Tuesday workouts of two different weeks in it.
C5_Witness ==
    /\ Returned
    /\ WithId(LastPlan, RaceId) # {}
    /\ \E m, n \in 1..args.totalWeeks :
           /\ m # n
           /\ WithId(LastPlan, IdOf("tue", m)) # {}
           /\ WithId(LastPlan, IdOf("tue", n)) # {}

\* C6: every call made with the same arguments at the same value of today
\* returns the same list (dates, names, descriptions, ids) as the first;
\* what a call leaves behind (the context whose race date it has moved to
\* 10:00, the collected events) does not reach a later call.
C6_RepeatedCallsAgree ==
    \A k \in 1..Len(plans) : plans[k] = plans[1]

\* A second call has returned a non-empty plan, after a first call that
\* generated the race week and so moved the race date of its context.
C6_Witness ==
    /\ pc = "idle"
    /\ Len(plans) >= 2
    /\ Len(plans[2]) > 4
    /\ WithId(plans[1], RaceId) # {}
    /\ ctx.raceDate # parseISO(args.raceDateStr)

(***************************************************************************)
(* Reading a generated workout back: its name and description are compared *)
(* with the text a given distance, tag or repeat count would produce.      *)
(***************************************************************************)
WeekNumbers == 1..args.totalWeeks

Given == newContext(args)

LongRunTags == {"", " [RECOVERY]", " [TAPER]", " [RACE TEST]"}

KmRange ==
    0..(IF args.startKm > args.raceDist THEN args.startKm ELSE args.raceDist)

LongRunName(weekNum, km, tag) ==
    "W" \o PadStart2(weekNum) \o " Sun LR (" \o ToString(km) \o "km)"
        \o tag \o " " \o args.prefix

LongRunText(km) ==
    createWorkoutText(
        stratLong(Given) \o " (Trail)",
        warmupStep(Given, stratLong(Given)),
        <<formatStep(ToString(km) \o "km", 77, 84, args.lthr, "")>>,
        cooldownStep(Given), 1)

\* e is the long run of week weekNum over km kilometres carrying tag.
IsLongRun(e, weekNum, km, tag) ==
    /\ e.name = LongRunName(weekNum, km, tag)
    /\ e.description = LongRunText(km)

KmsOf(e, weekNum) ==
    {km \in KmRange : \E tag \in LongRunTags : IsLongRun(e, weekNum, km, tag)}

LongRunsOf(p, weekNum) == WithId(p, IdOf("sun", weekNum))

\* Neither recovery, taper, race-test nor race week.
PlainWeek(n) == n % 4 # 0 /\ n < args.totalWeeks - 3

C8_EveryFourthWeekRecovery ==
    Returned =>
        \A n \in WeekNumbers :
            (n % 4 = 0 /\ n # args.totalWeeks) =>
                \A e \in LongRunsOf(LastPlan, n) :
                    IsLongRun(e, n, args.startKm, " [RECOVERY]")

\* C8 as amended: in every week whose number is a multiple of 4 and which
\* is neither the race week, the taper week (totalWeeks - 1) nor a
\* race-test week (totalWeeks - 2, totalWeeks - 3), the Sunday long run is
\* startKm long and tagged [RECOVERY].
C8_FourthWeekRecoveryUnlessLateWeek ==
    Returned =>
        \A n \in WeekNumbers :
            (n % 4 = 0 /\ n < args.totalWeeks - 3) =>
                \A e \in LongRunsOf(LastPlan, n) :
                    IsLongRun(e, n, args.startKm, " [RECOVERY]")

\* A plan of 8 weeks has returned with the recovery long run of week 4.
C8_Witness ==
    /\ Returned
    /\ args.totalWeeks >= 8
    /\ \E e \in LongRunsOf(LastPlan, 4) :
           IsLongRun(e, 4, args.startKm, " [RECOVERY]")

\* C9: in a returned plan the long run of week totalWeeks - 1 is
\* floor(raceDist / 2) long and tagged [TAPER], the long runs of weeks
\* totalWeeks - 2 and totalWeeks - 3 are raceDist long and tagged
\* [RACE TEST], and every long run's name carries at most one of the tags
\* [RECOVERY], [TAPER], [RACE TEST].
C9_TaperAndRaceTestPinned ==
    Returned =>
        \A n \in WeekNumbers :
            \A e \in LongRunsOf(LastPlan, n) :
                /\ n = args.totalWeeks - 1 =>
                       IsLongRun(e, n, args.raceDist \div 2, " [TAPER]")
                /\ (n = args.totalWeeks - 2 \/ n = args.totalWeeks - 3) =>
                       IsLongRun(e, n, args.raceDist, " [RACE TEST]")
                /\ KmsOf(e, n) # {}

\* A plan has returned with its taper long run and both race-test long
\* runs, one of these three weeks being a multiple of 4 as well.
C9_Witness ==
    /\ Returned
    /\ args.totalWeeks >= 5
    /\ \E n \in (args.totalWeeks - 3)..(args.totalWeeks - 1) : n % 4 = 0
    /\ \A n \in (args.totalWeeks - 3)..(args.totalWeeks - 1) :
           LongRunsOf(LastPlan, n) # {}

TempoName(weekNum, tag) ==
    "W" \o PadStart2(weekNum) \o " Tue Tempo " \o args.prefix \o tag

TempoText(reps, block) ==
    createWorkoutText(
        stratHard(Given),
        warmupStep(Given, stratHard(Given)),
        <<formatStep(block, 88, 94, args.lthr, ""),
          formatStep("2m", 72, 80, args.lthr, "")>>,
        cooldownStep(Given), reps)

\* The Tuesday of week n is a tempo session when the week index n - 1 is
\* odd.
TemposOf(p, n) == IF n % 2 = 0 THEN WithId(p, IdOf("tue", n)) ELSE {}

Growth(n) == 3 + ((3 * (n - 1)) \div args.totalWeeks)

RepsOf(e, block) == {r \in 1..6 : e.description = TempoText(r, block)}

TempoRaceWeek(e, n) ==
    /\ e.name = TempoName(n, " [SHAKEOUT]")
    /\ e.description = TempoText(2, "5m")

\* C10 as claimed: the tempo repeat count is 3 + floor(3 * weekIdx /
\* totalWeeks) on normal weeks, is reduced (to the base count of 3 at most)
\* on the taper week and the race-test weeks, and is 2, with 5-minute
\* blocks and the [SHAKEOUT] tag, on race week.
C10_TempoRepsReducedOnTaper ==
    Returned =>
        \A n \in WeekNumbers :
            \A e \in TemposOf(LastPlan, n) :
                IF n = args.totalWeeks THEN TempoRaceWeek(e, n)
                ELSE /\ e.name = TempoName(n, "")
                     /\ IF n >= args.totalWeeks - 3
                        THEN \E r \in RepsOf(e, "8m") : r <= 3
                        ELSE e.description = TempoText(Growth(n), "8m")

\* C10 as amended: the tempo repeat count is 3 + floor(3 * weekIdx /
\* totalWeeks) on normal weeks and on the taper week alike, is 3 on the
\* race-test weeks, and is 2, with 5-minute blocks and the [SHAKEOUT] tag,
\* on race week.
C10_TempoRepsByWeekKind ==
    Returned =>
        \A n \in WeekNumbers :
            \A e \in TemposOf(LastPlan, n) :
                IF n = args.totalWeeks THEN TempoRaceWeek(e, n)
                ELSE /\ e.name = TempoName(n, "")
                     /\ IF n = args.totalWeeks - 2 \/ n = args.totalWeeks - 3
                        THEN e.description = TempoText(3, "8m")
                        ELSE e.description = TempoText(Growth(n), "8m")

\* A plan has returned with a tempo session in its taper week whose repeat
\* count has grown to 5, next to a race-test tempo session.
C10_Witness ==
    /\ Returned
    /\ \E e \in TemposOf(LastPlan, args.totalWeeks - 1) :
           e.description = TempoText(5, "8m")
    /\ TemposOf(LastPlan, args.totalWeeks - 3) # {}

(***************************************************************************)
(* Strings as the history analysis reads them.                             *)
(***************************************************************************)
UpperCase == "ABCDEFGHIJKLMNOPQRSTUVWXYZ"

LowerCase == "abcdefghijklmnopqrstuvwxyz"

Digits == "0123456789"

\* s[k - 1] of JavaScript; "" past either end.
charAt(s, k) == IF k >= 1 /\ k <= Len(s) THEN SubSeq(s, k, k) ELSE ""

\* The lower-case letter of every upper-case letter.
LowerOf ==
    [ch \in {SubSeq(UpperCase, k, k) : k \in 1..26} |->
        LET k == CHOOSE k \in 1..26 : SubSeq(UpperCase, k, k) = ch
        IN  SubSeq(LowerCase, k, k)]

lowerChar(ch) == IF ch \in DOMAIN LowerOf THEN LowerOf[ch] ELSE ch

RECURSIVE toLowerCase(_)
toLowerCase(s) ==
    IF Len(s) = 0 THEN ""
    ELSE lowerChar(SubSeq(s, 1, 1)) \o toLowerCase(SubSeq(s, 2, Len(s)))

\* String.prototype.includes.
includes(s, part) ==
    \E k \in 1..(Len(s) - Len(part) + 1) :
        SubSeq(s, k, k + Len(part) - 1) = part

isDigit(ch) == \E k \in 1..10 : SubSeq(Digits, k, k) = ch

digitValue(ch) == (CHOOSE k \in 1..10 : SubSeq(Digits, k, k) = ch) - 1

\* \s of a regular expression, over the characters the texts here hold.
isSpace(ch) == ch \in {" ", "\n", "\t", "\r"}

\* The first position from k on that holds no white space / no digit.
RECURSIVE skipSpaces(_, _)
skipSpaces(s, k) == IF isSpace(charAt(s, k)) THEN skipSpaces(s, k + 1) ELSE k

RECURSIVE skipDigits(_, _)
skipDigits(s, k) == IF isDigit(charAt(s, k)) THEN skipDigits(s, k + 1) ELSE k

\* parseInt of a run of decimal digits.
RECURSIVE parseInt(_)
parseInt(ds) ==
    IF Len(ds) = 0 THEN 0
    ELSE 10 * parseInt(SubSeq(ds, 1, Len(ds) - 1))
         + digitValue(SubSeq(ds, Len(ds), Len(ds)))

\* /FUEL:\s*(\d+)g/i matches at position k.  The digits are matched
\* greedily and a shorter run is followed by a digit, never by "g".
fuelMatchesAt(s, k) ==
    /\ charAt(s, k) \in {"F", "f"}
    /\ charAt(s, k + 1) \in {"U", "u"}
    /\ charAt(s, k + 2) \in {"E", "e"}
    /\ charAt(s, k + 3) \in {"L", "l"}
    /\ charAt(s, k + 4) = ":"
    /\ skipDigits(s, skipSpaces(s, k + 5)) > skipSpaces(s, k + 5)
    /\ charAt(s, skipDigits(s, skipSpaces(s, k + 5))) \in {"G", "g"}

\* The fuel rate of an activity's description: analyzeRun's
\*   let currentFuel = 10;
\*   const match = run.description?.match(/FUEL:\s*(\d+)g/i);
\*   if (match) currentFuel = parseInt(match[1]);
\* The optional description is <<>> when absent and <<text>> otherwise.
currentFuelOf(description) ==
    IF description = <<>> THEN 10
    ELSE LET text == description[1]
         IN  IF \E k \in 1..Len(text) : fuelMatchesAt(text, k)
             THEN LET k == CHOOSE k \in 1..Len(text) :
                               /\ fuelMatchesAt(text, k)
                               /\ \A j \in 1..(k - 1) : ~fuelMatchesAt(text, j)
                      from == skipSpaces(text, k + 5)
                      to == skipDigits(text, from)
                  IN  parseInt(SubSeq(text, from, to - 1))
             ELSE 10

(***************************************************************************)
(* History analysis: the pure parts.                                       *)
(*                                                                         *)
(* A glucose value is kept in tenths of the unit the stream carries, a     *)
(* time in seconds, and a trend (units per hour) as a fraction n/d with    *)
(* d > 0.                                                                  *)
(***************************************************************************)
undefined == [undefined |-> TRUE]

Frac(n, d) == [n |-> n, d |-> d]

getWorkoutCategory(name) ==
    LET lower == toLowerCase(name)
    IN  IF includes(lower, "lr") \/ includes(lower, "long") THEN "long"
        ELSE IF includes(lower, "tempo") \/ includes(lower, "hills")
             THEN "interval"
        ELSE "other"

GlucoseTypes == {"bloodglucose", "glucose", "ga_smooth"}

\* The for loop of analyzeRun: the data of the last stream of a wanted
\* type, [] when there is none.
RECURSIVE lastData(_, _)
lastData(streams, types) ==
    IF Len(streams) = 0 THEN <<>>
    ELSE IF streams[Len(streams)].type \in types
         THEN streams[Len(streams)].data
    ELSE lastData(SubSeq(streams, 1, Len(streams) - 1), types)

\* Math.round(t / 60) for t >= 0.
roundMinutes(t) == (t + 30) \div 60

\* durationHr > 0.2 with "not below" in place of "above".
longEnoughInclusive(seconds) == 10 * seconds >= 2 * 3600

\* durationHr > 0.2, where durationHr = seconds / 3600.
longEnough(seconds) == 10 * seconds > 2 * 3600

\* fetchStreams parsing the body whatever the status.
fetchStreamsAnyStatus(response) == response.body

\* fetchStreams: the parsed body of a 2xx response, [] for anything else
\* (a non-2xx status, a fetch that rejects, a body that does not parse).
fetchStreams(response) ==
    IF response.kind = "ok" THEN response.body ELSE <<>>

\* The part of analyzeRun after the streams have arrived.
analyzeRun(run, streams) ==
    LET tData == lastData(streams, {"time"})
        gData == lastData(streams, GlucoseTypes)
        currentFuel == currentFuelOf(run.description)
        measured == Len(gData) > 0 /\ Len(tData) > 1
        plotData ==
            IF measured
            THEN [idx \in 1..Len(tData) |->
                     [time |-> roundMinutes(tData[idx]),
                      glucose |-> IF idx <= Len(gData) THEN gData[idx]
                                  ELSE undefined]]
            ELSE <<>>
        delta == gData[Len(gData)] - gData[1]
        seconds == tData[Len(tData)] - tData[1]
        trend == IF measured /\ longEnough(seconds)
                 THEN Frac(360 * delta, seconds)
                 ELSE Frac(0, 1)
    IN  [trend |-> trend, currentFuel |-> currentFuel, plotData |-> plotData]

\* a.name.toLowerCase().includes(prefix.toLowerCase())
isRelevant(a, prefix) == includes(toLowerCase(a.name), toLowerCase(prefix))

\* activities.filter(...)
RECURSIVE filterRelevant(_, _)
filterRelevant(activities, prefix) ==
    IF Len(activities) = 0 THEN <<>>
    ELSE (IF isRelevant(Head(activities), prefix) THEN <<Head(activities)>>
          ELSE <<>>)
         \o filterRelevant(Tail(activities), prefix)

\* The list left in the order of the response.
keepOrder(list) == list

\* relevant.sort((a, b) => date(b) - date(a)): most recent first, and the
\* sort is stable, so equal dates keep the order of the response.
RECURSIVE insertByDate(_, _)
insertByDate(sorted, a) ==
    IF Len(sorted) = 0 THEN <<a>>
    ELSE IF Head(sorted).start_date >= a.start_date
         THEN <<Head(sorted)>> \o insertByDate(Tail(sorted), a)
    ELSE <<a>> \o sorted

RECURSIVE sortByDate(_)
sortByDate(list) ==
    IF Len(list) = 0 THEN <<>>
    ELSE insertByDate(sortByDate(SubSeq(list, 1, Len(list) - 1)),
                      list[Len(list)])

\* relevant.find((a) => getWorkoutCategory(a.name) === category); null
\* stands for the undefined find returns when nothing matches.
RECURSIVE find(_, _)
find(list, category) ==
    IF Len(list) = 0 THEN null
    ELSE IF getWorkoutCategory(Head(list).name) = category THEN Head(list)
    ELSE find(Tail(list), category)

(***************************************************************************)
(* History analysis: what the API may answer.                              *)
(***************************************************************************)
\* "3f9", and the same key ending in a character beyond Latin-1.
ApiKeys == {NoKey, <<51, 102, 57>>, <<51, 102, 8230>>}

\* btoa throws InvalidCharacterError on a code unit above 0xFF.
btoaThrows(codes) == \E k \in 1..Len(codes) : codes[k] > 255

\* <<fuelInterval, fuelSteady>> the uploaded plan was generated with.
HistoryFuelPairs == {<<0, 7>>, <<12, 205>>}

\* An uploaded workout as the API returns it once it has been run.
asActivity(e, id) ==
    [id |-> id, name |-> e.name, start_date |-> e.start_date_local,
     description |-> <<e.description>>]

\* The activities a response is drawn from: weeks 2 and 3 of the plan, a
\* run named by hand at the time of the week-3 long run and without a
\* description, a ride that does not carry the prefix and is the latest of
\* all, and a run whose description was typed by hand.
HistoryPool(c) ==
    LET w2 == weekStartOf(c, 1)
        w3 == weekStartOf(c, 2)
        lr3 == generateLongRun(c, 2, w3)[1]
    IN  <<asActivity(generateQualityRun(c, 1, w2)[1], "a1"),
          asActivity(generateLongRun(c, 1, w2)[1], "a2"),
          asActivity(generateQualityRun(c, 2, w3)[1], "a3"),
          asActivity(lr3, "a4"),
          asActivity(generateEasyRun(c, 2, w3)[1], "a5"),
          [id |-> "a6", name |-> "Evening Long Run ECO16",
           start_date |-> lr3.start_date_local, description |-> <<>>],
          [id |-> "a7", name |-> "Long Ride",
           start_date |-> addDays(lr3.start_date_local, 1),
           description |-> <<"FUEL: 99g">>],
          [id |-> "a8", name |-> "Trail long run eco16",
           start_date |-> addDays(lr3.start_date_local, -2),
           description |-> <<"Fuel: 8 g of gel, FUEL 12g, fuel: g">>]>>

\* The orders a response lists up to MaxActivities of them in.
ActivityOrders ==
    {o \in UNION {[1..n -> 1..8] : n \in 0..MaxActivities} :
        \A j, k \in DOMAIN o : j # k => o[j] # o[k]}

FailureKinds == {"network_error", "http_error", "bad_body"}

Failure(kind) == [kind |-> kind, body |-> <<>>]

Ok(body) == [kind |-> "ok", body |-> body]

stream(type, data) == [type |-> type, data |-> data]

\* Glucose over one hour, sampled at 0, 30 and 60 minutes (tenths of a
\* unit): falls of 3.0, 3.5, 4.5, 6.0 and 9.0 per hour, rises of 3.0 and
\* 3.5, and a fall from 180 to 90 as a sensor reporting mg/dL sends it.
HourSeries ==
    {<<100, 80, 70>>, <<100, 80, 65>>, <<100, 70, 55>>, <<120, 90, 60>>,
     <<150, 100, 60>>, <<60, 80, 90>>, <<60, 80, 95>>, <<1800, 1500, 900>>}

StreamBodies ==
    {<<stream("time", <<0, 1800, 3600>>), stream("heartrate", <<120, 150, 155>>),
       stream("bloodglucose", g)>> : g \in HourSeries}
    \cup
    {<<>>,
     <<stream("time", <<0, 1800>>)>>,
     <<stream("bloodglucose", <<55>>), stream("time", <<0>>)>>,
     <<stream("time", <<0, 360, 720>>), stream("glucose", <<60, 80, 110>>)>>,
     <<stream("time", <<0, 400, 721>>), stream("glucose", <<60, 80, 110>>)>>,
     <<stream("glucose", <<70, 45>>), stream("time", <<60, 1800, 3660>>),
       stream("ga_smooth", <<70, 68>>)>>}

\* A non-2xx answer whose body would parse as streams.
ErrorWithStreams ==
    [kind |-> "http_error",
     body |-> <<stream("time", <<0, 1800, 3600>>),
                stream("bloodglucose", <<100, 70, 55>>)>>]

StreamResponses ==
    {Failure(kind) : kind \in FailureKinds} \cup {ErrorWithStreams}
    \cup {Ok(b) : b \in StreamBodies}

(***************************************************************************)
(* handleAnalyze of the screen with two fuel rates, and analyzeHistory.    *)
(***************************************************************************)
Min(a, b) == IF a < b THEN a ELSE b

Max(a, b) == IF a > b THEN a ELSE b

Abs(a) == IF a < 0 THEN -a ELSE a

\* Math.floor(Math.abs(trend - -3.0) * 0.7) for the trend n/d.
crashSteps(trend) == (7 * Abs(trend.n + 3 * trend.d)) \div (10 * trend.d)

\* suggSteady with the increase left uncapped.
suggSteadyUncapped(run) ==
    IF run.trend.n < -3 * run.trend.d
    THEN run.currentFuel + 1 + crashSteps(run.trend)
    ELSE IF run.trend.n > 3 * run.trend.d THEN Max(0, run.currentFuel - 1)
    ELSE run.currentFuel

\* let suggSteady = result.longRun.currentFuel; ... setFuelSteady(suggSteady)
suggSteady(run) ==
    IF run.trend.n < -3 * run.trend.d
    THEN run.currentFuel + Min(1 + crashSteps(run.trend), 4)
    ELSE IF run.trend.n > 3 * run.trend.d THEN Max(0, run.currentFuel - 1)
    ELSE run.currentFuel

\* let suggInterval = result.interval.currentFuel; ...
suggInterval(run) ==
    IF run.trend.n < -3 * run.trend.d
    THEN run.currentFuel + Min(1 + crashSteps(run.trend), 4)
    ELSE IF run.trend.n > 3 * run.trend.d THEN Max(0, run.currentFuel - 1)
    ELSE run.currentFuel

shown(run) == [trend |-> run.trend, plotData |-> run.plotData]

AnalysisFailed == [longRun |-> null, interval |-> null, msg |-> "Analysis failed"]

NoActivitiesFound ==
    [longRun |-> null, interval |-> null, msg |-> "No activities found"]

\* const result = { longRun: null, interval: null }; msg stays undefined.
EmptyResult == [longRun |-> null, interval |-> null, msg |-> ""]

Rejected == [rejected |-> TRUE]

\* The plan the history was uploaded from.
HistoryInit ==
    /\ \E f \in HistoryFuelPairs :
          args = [fuelInterval |-> f[1], fuelSteady |-> f[2],
                  raceDateStr |-> 7 * MaxWeeks + 12, raceDist |-> 16,
                  prefix |-> "eco16", totalWeeks |-> MaxWeeks, startKm |-> 8,
                  lthr |-> DEFAULT_LTHR]
    /\ today = 0
    /\ pc = "idle"
    /\ ctx = newContext(args)
    /\ i = 0
    /\ acc = <<>>
    /\ plans = <<>>

AnalyzeInit ==
    /\ HistoryInit
    /\ apiKey \in ApiKeys
    /\ hpc = "idle"
    /\ inbox = NoResponses
    /\ selected = NoneSelected
    /\ result = null
    /\ home = HomeInit
    /\ ScreenAtRest /\ UploadAtRest
    /\ CalendarAtRest /\ ViewAtRest

\* handleAnalyze without an API key: a status message, nothing else.
\* (Status messages are kept without the symbol they begin with.)
MissingApiKey ==
    /\ hpc = "idle"
    /\ apiKey = NoKey
    /\ home' = [home EXCEPT !.statusMsg = "Missing API Key"]
    /\ hpc' = "returned"
    /\ UNCHANGED <<apiKey, inbox, selected, result>>
    /\ UNCHANGED <<planVars, screen, upl>>
    /\ UNCHANGED calendarVars

\* handleAnalyze calls analyzeHistory, whose first statement, btoa, throws:
\* the promise rejects and the handler, which catches nothing, ends there.
AnalyzeHistoryRejects ==
    /\ hpc = "idle"
    /\ apiKey # NoKey
    /\ btoaThrows(apiKey)
    /\ home' = [home EXCEPT !.isAnalyzing = TRUE]
    /\ result' = Rejected
    /\ hpc' = "rejected"
    /\ UNCHANGED <<apiKey, inbox, selected>>
    /\ UNCHANGED <<planVars, screen, upl>>
    /\ UNCHANGED calendarVars

\* handleAnalyze calls analyzeHistory, which sends the activities request.
ActivitiesRequested ==
    /\ hpc = "idle"
    /\ apiKey # NoKey
    /\ ~btoaThrows(apiKey)
    /\ home' = [home EXCEPT !.isAnalyzing = TRUE]
    /\ hpc' = "activities"
    /\ UNCHANGED <<apiKey, inbox, selected, result>>
    /\ UNCHANGED <<planVars, screen, upl>>
    /\ UNCHANGED calendarVars

\* The request rejects, answers with a non-2xx status, or its body does
\* not parse: each throws inside the try, and the catch returns.
ActivitiesFailed ==
    /\ hpc = "activities"
    /\ \E kind \in FailureKinds :
          inbox' = [inbox EXCEPT !.activities = Failure(kind)]
    /\ result' = AnalysisFailed
    /\ hpc' = "resolved"
    /\ UNCHANGED <<apiKey, selected, home>>
    /\ UNCHANGED <<planVars, screen, upl>>
    /\ UNCHANGED calendarVars

\* The activities arrive: filter, sort, find, up to the first await of a
\* stream request (or to the return when there is nothing to analyse).
ActivitiesLoaded ==
    /\ hpc = "activities"
    /\ \E o \in ActivityOrders :
          LET activities == [k \in DOMAIN o |-> HistoryPool(ctx)[o[k]]]
              relevant == filterRelevant(activities, args.prefix)
              sorted == sortByDate(relevant)
              mostRecentLong == find(sorted, "long")
              mostRecentInterval == find(sorted, "interval")
          IN  /\ inbox' = [inbox EXCEPT !.activities = Ok(activities)]
              /\ IF Len(relevant) = 0
                 THEN /\ result' = NoActivitiesFound
                      /\ selected' = selected
                      /\ hpc' = "resolved"
                 ELSE /\ result' = EmptyResult
                      /\ selected' = [long |-> mostRecentLong,
                                      interval |-> mostRecentInterval]
                      /\ hpc' = IF mostRecentLong # null THEN "longRun"
                                ELSE IF mostRecentInterval # null
                                     THEN "interval"
                                ELSE "resolved"
    /\ UNCHANGED <<apiKey, home>>
    /\ UNCHANGED <<planVars, screen, upl>>
    /\ UNCHANGED calendarVars

\* The stream request of the long run settles and analyzeRun finishes.
LongRunStreams ==
    /\ hpc = "longRun"
    /\ \E response \in StreamResponses :
          /\ inbox' = [inbox EXCEPT !.longRun = response]
          /\ result' = [result EXCEPT
                           !.longRun = analyzeRun(selected.long,
                                                  fetchStreams(response))]
    /\ hpc' = IF selected.interval # null THEN "interval" ELSE "resolved"
    /\ UNCHANGED <<apiKey, selected, home>>
    /\ UNCHANGED <<planVars, screen, upl>>
    /\ UNCHANGED calendarVars

\* The stream request of the interval run settles and analyzeRun finishes.
IntervalStreams ==
    /\ hpc = "interval"
    /\ \E response \in StreamResponses :
          /\ inbox' = [inbox EXCEPT !.interval = response]
          /\ result' = [result EXCEPT
                           !.interval = analyzeRun(selected.interval,
                                                   fetchStreams(response))]
    /\ hpc' = "resolved"
    /\ UNCHANGED <<apiKey, selected, home>>
    /\ UNCHANGED <<planVars, screen, upl>>
    /\ UNCHANGED calendarVars

\* analyzeHistory has resolved: handleAnalyze stores what it got.
AnalysisApplied ==
    /\ hpc = "resolved"
    /\ home' =
          [home EXCEPT
              !.longRunAnalysis =
                  IF result.longRun # null THEN shown(result.longRun) ELSE @,
              !.fuelSteady =
                  IF result.longRun # null THEN suggSteady(result.longRun)
                  ELSE @,
              !.intervalAnalysis =
                  IF result.interval # null THEN shown(result.interval) ELSE @,
              !.fuelInterval =
                  IF result.interval # null THEN suggInterval(result.interval)
                  ELSE @,
              !.isAnalyzing = FALSE]
    /\ hpc' = "returned"
    /\ UNCHANGED <<apiKey, inbox, selected, result>>
    /\ UNCHANGED <<planVars, screen, upl>>
    /\ UNCHANGED calendarVars

AnalyzeNext ==
    \/ MissingApiKey
    \/ AnalyzeHistoryRejects
    \/ ActivitiesRequested
    \/ ActivitiesFailed
    \/ ActivitiesLoaded
    \/ LongRunStreams
    \/ IntervalStreams
    \/ AnalysisApplied

SpecAnalyze == AnalyzeInit /\ [][AnalyzeNext]_vars

(***************************************************************************)
(* What the analysis claims are stated over: the responses received, the   *)
(* result analyzeHistory resolved to and the screen state after the        *)
(* handler has returned.                                                   *)
(***************************************************************************)
AnalysisReturned == hpc = "returned" /\ result # null

\* The claimed suggestion for the trend n/d and the fuel rate f, with the
\* floor spelled out: k = floor(x) iff k <= x < k + 1.
ClaimedSuggestion(trend, f, sugg) ==
    LET x10d == 7 * Abs(trend.n + 3 * trend.d)    \* |trend + 3| * 0.7 * 10d
    IN  IF trend.n < -3 * trend.d
        THEN \E k \in 0..200 :
                /\ k * 10 * trend.d <= x10d
                /\ x10d < (k + 1) * 10 * trend.d
                /\ sugg = f + Min(1 + k, 4)
                /\ sugg - f \in 1..4
        ELSE IF trend.n > 3 * trend.d THEN sugg = Max(0, f - 1)
        ELSE sugg = f

\* C11: after handleAnalyze, the fuel rate set for an analysed category is
\* currentFuel + min(1 + floor(|trend + 3.0| * 0.7), 4) when trend < -3.0,
\* max(0, currentFuel - 1) when trend > 3.0 and currentFuel otherwise; an
\* increase is between 1 and 4 and the suggestion is never negative.
C11_SuggestedFuelFollowsPolicy ==
    AnalysisReturned =>
        /\ result.longRun # null =>
              /\ ClaimedSuggestion(result.longRun.trend,
                                   result.longRun.currentFuel, home.fuelSteady)
              /\ home.fuelSteady >= 0
        /\ result.interval # null =>
              /\ ClaimedSuggestion(result.interval.trend,
                                   result.interval.currentFuel,
                                   home.fuelInterval)
              /\ home.fuelInterval >= 0

\* A long run falling 4.5 per hour at fuel 7 is raised by 2 to 9, and an
\* interval run rising 3.5 per hour at fuel 0 stays at 0.
C11_Witness ==
    /\ AnalysisReturned
    /\ result.longRun # null /\ result.interval # null
    /\ result.longRun.trend = Frac(-16200, 3600)
    /\ result.longRun.currentFuel = 7
    /\ home.fuelSteady = 9
    /\ result.interval.trend = Frac(12600, 3600)
    /\ result.interval.currentFuel = 0
    /\ home.fuelInterval = 0

(***************************************************************************)
(* handleAnalyze of the planner screen with three fuel rates               *)
(* (src/app/screens/PlannerScreen.tsx).  The analyzeHistory it awaits      *)
(* resolves to a result with a long-run, an easy-run and an interval       *)
(* record; the result is an input here.                                    *)
(***************************************************************************)
ScreenTrends ==
    {Frac(-9, 1), Frac(-9, 2), Frac(-3, 1), Frac(0, 1), Frac(3, 1), Frac(7, 2)}

ScreenFuels == {0, 5}

ScreenRuns ==
    {null} \cup {[trend |-> t, currentFuel |-> f, plotData |-> <<>>] :
                    t \in ScreenTrends, f \in ScreenFuels}

ScreenResults == [longRun : ScreenRuns, easyRun : ScreenRuns, interval : ScreenRuns]

\* let suggLong = result.longRun.currentFuel; ... setFuelLong(suggLong)
suggLong(run) ==
    IF run.trend.n < -3 * run.trend.d
    THEN run.currentFuel + Min(1 + crashSteps(run.trend), 4)
    ELSE IF run.trend.n > 3 * run.trend.d THEN Max(0, run.currentFuel - 1)
    ELSE run.currentFuel

\* let suggEasy = result.easyRun.currentFuel; ... setFuelEasy(suggEasy)
suggEasy(run) ==
    IF run.trend.n < -3 * run.trend.d
    THEN run.currentFuel + Min(1 + crashSteps(run.trend), 4)
    ELSE IF run.trend.n > 3 * run.trend.d THEN Max(0, run.currentFuel - 1)
    ELSE run.currentFuel

\* let suggInt = result.interval.currentFuel;
\* if (result.interval.trend > 3.0) suggInt = Math.max(0, suggInt - 1);
suggInt(run) ==
    IF run.trend.n > 3 * run.trend.d THEN Max(0, run.currentFuel - 1)
    ELSE run.currentFuel

\* The screen after an earlier analysis and some typing in the fuel
\* fields: every category has a stored analysis and a rate of its own.
ScreenAnalysedBefore ==
    [ScreenInit EXCEPT
        !.fuelInterval = 6, !.fuelLong = 12, !.fuelEasy = 9,
        !.longRunAnalysis = [trend |-> Frac(-9, 2), plotData |-> <<>>],
        !.easyRunAnalysis = [trend |-> Frac(0, 1), plotData |-> <<>>],
        !.intervalAnalysis = [trend |-> Frac(7, 2), plotData |-> <<>>],
        !.statusMsg = "Analysis Complete - Fuel adjusted automatically"]

\* A handler that clears the stored analysis of a category it got nothing
\* for.
storedOrCleared(run, current) ==
    IF run # null THEN [trend |-> run.trend, plotData |-> run.plotData]
    ELSE null

\* if (result.longRun) { setLongRunAnalysis({ trend, plotData }); ... }:
\* the stored analysis after the handler.
stored(run, current) ==
    IF run # null THEN [trend |-> run.trend, plotData |-> run.plotData]
    ELSE current

ScreenAnalyzeInit ==
    /\ HistoryInit
    /\ apiKey \in {NoKey, <<51, 102, 57>>}
    /\ hpc = "idle"
    /\ inbox = NoResponses
    /\ selected = NoneSelected
    /\ result = null
    /\ home = HomeInit
    /\ screen \in {ScreenInit, ScreenAnalysedBefore}
    /\ UploadAtRest
    /\ CalendarAtRest /\ ViewAtRest

ScreenMissingApiKey ==
    /\ screen.pc = "idle"
    /\ apiKey = NoKey
    /\ screen' = [screen EXCEPT !.statusMsg = "Missing API Key",
                                !.pc = "returned"]
    /\ UNCHANGED <<planVars, analysisVars, upl>>
    /\ UNCHANGED calendarVars

\* setIsAnalyzing(true); await analyzeHistory(apiKey, prefix)
ScreenAnalyzeRequested ==
    /\ screen.pc = "idle"
    /\ apiKey # NoKey
    /\ screen' = [screen EXCEPT !.isAnalyzing = TRUE, !.pc = "awaiting"]
    /\ UNCHANGED <<planVars, analysisVars, upl>>
    /\ UNCHANGED calendarVars

\* analyzeHistory resolves and the handler stores what it got.
ScreenAnalysisApplied ==
    /\ screen.pc = "awaiting"
    /\ \E r \in ScreenResults :
          screen' =
              [screen EXCEPT
                  !.result = r,
                  !.longRunAnalysis = stored(r.longRun, @),
                  !.fuelLong =
                      IF r.longRun # null THEN suggLong(r.longRun) ELSE @,
                  !.easyRunAnalysis = stored(r.easyRun, @),
                  !.fuelEasy =
                      IF r.easyRun # null THEN suggEasy(r.easyRun) ELSE @,
                  !.intervalAnalysis = stored(r.interval, @),
                  !.fuelInterval =
                      IF r.interval # null THEN suggInt(r.interval) ELSE @,
                  !.isAnalyzing = FALSE,
                  !.statusMsg =
                      "Analysis Complete - Fuel adjusted automatically",
                  !.pc = "returned"]
    /\ UNCHANGED <<planVars, analysisVars, upl>>
    /\ UNCHANGED calendarVars

ScreenNext ==
    \/ ScreenMissingApiKey
    \/ ScreenAnalyzeRequested
    \/ ScreenAnalysisApplied

SpecScreen == ScreenAnalyzeInit /\ [][ScreenNext]_vars

ScreenReturned == screen.pc = "returned" /\ screen.result # null

SameRun(a, b) ==
    a # null /\ b # null /\ a.trend = b.trend /\ a.currentFuel = b.currentFuel

\* C12: for the same (trend, currentFuel) pair the long-run, the easy and
\* the interval category are given the same suggested fuel rate.
C12_SamePolicyAcrossCategories ==
    ScreenReturned =>
        LET r == screen.result
        IN  /\ SameRun(r.longRun, r.easyRun) =>
                  screen.fuelLong = screen.fuelEasy
            /\ SameRun(r.longRun, r.interval) =>
                  screen.fuelLong = screen.fuelInterval
            /\ SameRun(r.easyRun, r.interval) =>
                  screen.fuelEasy = screen.fuelInterval

(***************************************************************************)
(* The analysis claims, read off the responses in inbox.                   *)
(***************************************************************************)
AnalysisResolved == hpc \in {"resolved", "returned"} /\ result # null

Categories == {"longRun", "interval"}

\* The streams a category's request delivered: none unless it answered 2xx
\* with a body that parses.
Delivered(cat) ==
    IF inbox[cat] # null /\ inbox[cat].kind = "ok" THEN inbox[cat].body
    ELSE <<>>

\* The time axis and the glucose series among delivered streams: the data
\* of the stream of type time, and of the last stream of a glucose type.
TimeAxis(cat) ==
    LET b == Delivered(cat)
        ks == {k \in 1..Len(b) : b[k].type = "time"}
    IN  IF ks = {} THEN <<>>
        ELSE b[CHOOSE k \in ks : \A j \in ks : j <= k].data

GlucoseSeries(cat) ==
    LET b == Delivered(cat)
        ks == {k \in 1..Len(b) : b[k].type \in GlucoseTypes}
    IN  IF ks = {} THEN <<>>
        ELSE b[CHOOSE k \in ks : \A j \in ks : j <= k].data

Seconds(cat) ==
    LET t == TimeAxis(cat) IN IF Len(t) = 0 THEN 0 ELSE t[Len(t)] - t[1]

Delta(cat) ==
    LET g == GlucoseSeries(cat) IN IF Len(g) = 0 THEN 0 ELSE g[Len(g)] - g[1]

\* trend = delta / hours, for a delta in tenths over a number of seconds.
IsSlope(trend, delta, seconds) == trend.n * seconds = 360 * delta * trend.d

\* C13: for an analysed activity with a time axis and a glucose series the
\* trend is (last glucose - first glucose) / hours when the run lasted more
\* than 0.2 h (720 s) and 0 otherwise, whatever the samples in between.
C13_TrendIsTwoPointSlope ==
    AnalysisResolved =>
        \A cat \in Categories :
            (/\ result[cat] # null
             /\ Len(TimeAxis(cat)) > 0
             /\ Len(GlucoseSeries(cat)) > 0) =>
                IF Seconds(cat) > 720
                THEN IsSlope(result[cat].trend, Delta(cat), Seconds(cat))
                ELSE result[cat].trend.n = 0

\* A long run of 721 s rising by 5.0 has the slope 5.0 / (721 / 3600), and
\* an interval run of exactly 720 s rising by 5.0 has trend 0.
C13_Witness ==
    /\ AnalysisResolved
    /\ result.longRun # null /\ result.interval # null
    /\ Seconds("longRun") = 721 /\ Delta("longRun") = 50
    /\ result.longRun.trend = Frac(18000, 721)
    /\ Seconds("interval") = 720 /\ Delta("interval") = 50
    /\ result.interval.trend = Frac(0, 1)

ActivitiesFetchFailed ==
    inbox.activities # null /\ inbox.activities.kind \in FailureKinds

\* The part of C14 about a failed fetch: the result is all null and marked.
FailedFetchResolvesMarked ==
    ActivitiesFetchFailed =>
        /\ hpc \in {"resolved", "returned"}
        /\ result = AnalysisFailed

\* C14: analyzeHistory never rejects to its caller, and whenever the
\* activities request fails (network error, non-2xx status, unparsable
\* body) it resolves with every category null and the marker
\* "Analysis failed".
C14_NeverRejectsFailureMarked ==
    /\ result # Rejected
    /\ hpc # "rejected"
    /\ FailedFetchResolvesMarked

SelectedOf(cat) == IF cat = "longRun" THEN selected.long ELSE selected.interval

Other(cat) == IF cat = "longRun" THEN "interval" ELSE "longRun"

StreamFetchFailed(cat) == inbox[cat] # null /\ inbox[cat].kind # "ok"

\* The fuel rate an activity of the pool carries in its description: the
\* rate its workout was generated with, 10 for the runs without a
\* description or without a fuel token in it, and 99 for the ride.
DescribedFuel(a) ==
    IF a.id \in {"a1", "a3"} THEN args.fuelInterval
    ELSE IF a.id \in {"a2", "a4", "a5"} THEN args.fuelSteady
    ELSE IF a.id \in {"a6", "a8"} THEN 10
    ELSE 99

\* A category's record agrees with the streams its own request delivered.
FollowsOwnStreams(cat) ==
    /\ result[cat] # null
    /\ IF Seconds(cat) > 720 /\ Len(GlucoseSeries(cat)) > 0
       THEN IsSlope(result[cat].trend, Delta(cat), Seconds(cat))
       ELSE result[cat].trend.n = 0
    /\ Len(result[cat].plotData) =
          IF Len(GlucoseSeries(cat)) > 0 /\ Len(TimeAxis(cat)) > 1
          THEN Len(TimeAxis(cat)) ELSE 0

\* C15 as claimed: when the stream request of a selected activity fails the
\* category's record has trend 0, an empty plot series and fuel rate 10,
\* and the other category is analysed from its own streams.
C15_FailedStreamsDefaultFuel ==
    AnalysisResolved =>
        \A cat \in Categories :
            StreamFetchFailed(cat) =>
                /\ result[cat] # null
                /\ result[cat].trend.n = 0
                /\ result[cat].plotData = <<>>
                /\ result[cat].currentFuel = 10
                /\ SelectedOf(Other(cat)) # null => FollowsOwnStreams(Other(cat))

\* C15 as amended: the record keeps the fuel rate of the activity's
\* description (10 only when it has none); the rest as claimed.
C15_FailedStreamsKeepDescribedFuel ==
    AnalysisResolved =>
        \A cat \in Categories :
            StreamFetchFailed(cat) =>
                /\ result[cat] # null
                /\ result[cat].trend.n = 0
                /\ result[cat].plotData = <<>>
                /\ result[cat].currentFuel = DescribedFuel(SelectedOf(cat))
                /\ SelectedOf(Other(cat)) # null => FollowsOwnStreams(Other(cat))

\* The long run's request fails on the network: its record is trend 0, no
\* plot and the fuel rate 7 of its description, while the interval run is
\* analysed to a fall of 4.5 per hour with three plot points.
C15_Witness ==
    /\ AnalysisResolved
    /\ StreamFetchFailed("longRun")
    /\ inbox.longRun.kind = "network_error"
    /\ result.longRun = [trend |-> Frac(0, 1), currentFuel |-> 7,
                         plotData |-> <<>>]
    /\ result.interval # null
    /\ result.interval.trend = Frac(-16200, 3600)
    /\ Len(result.interval.plotData) = 3

ActivitiesArrived == inbox.activities # null /\ inbox.activities.kind = "ok"

CategoryName(cat) == IF cat = "longRun" THEN "long" ELSE "interval"

\* The places of the response that hold an activity of the category whose
\* name contains the prefix, letter case aside.
Candidates(cat) ==
    LET body == inbox.activities.body
    IN  {k \in 1..Len(body) :
            /\ isRelevant(body[k], args.prefix)
            /\ getWorkoutCategory(body[k].name) = CategoryName(cat)}

\* C16: each tracked category's record is the analysis of an activity with
\* the latest start time among the activities of the response that match
\* the prefix (case-insensitively) and fall in the category; a category
\* without such an activity is null.
C16_LatestMatchingActivityAnalysed ==
    (AnalysisResolved /\ ActivitiesArrived) =>
        \A cat \in Categories :
            LET body == inbox.activities.body
                candidates == Candidates(cat)
                analysed == SelectedOf(cat)
            IN  IF candidates = {}
                THEN result[cat] = null /\ inbox[cat] = null
                ELSE /\ \E k \in candidates : analysed = body[k]
                     /\ \A k \in candidates :
                           body[k].start_date <= analysed.start_date
                     /\ result[cat] # null
                     /\ result[cat].currentFuel = DescribedFuel(analysed)

\* The response lists the week-2 long run before the week-3 long run: the
\* week-3 run is analysed, and the interval category stays null.
C16_Witness ==
    /\ AnalysisResolved /\ ActivitiesArrived
    /\ Len(inbox.activities.body) = 2
    /\ inbox.activities.body[1].id = "a2"
    /\ inbox.activities.body[2].id = "a4"
    /\ selected.long = inbox.activities.body[2]
    /\ result.longRun # null
    /\ result.interval = null

\* The classification as claimed, on the lower-cased name.
ClaimedCategory(name) ==
    LET lower == toLowerCase(name)
    IN  IF includes(lower, "lr") \/ includes(lower, "long") THEN "long"
        ELSE IF includes(lower, "tempo") \/ includes(lower, "hills")
             THEN "interval"
        ELSE IF includes(lower, "easy") \/ includes(lower, "bonus")
             THEN "easy"
        ELSE "other"

\* C17: every activity name of a response is classified as claimed: long
\* for "lr" or "long", else interval for "tempo" or "hills", else easy for
\* "easy" or "bonus", else other.
C17_ClassifiedIntoFourCategories ==
    ActivitiesArrived =>
        \A k \in 1..Len(inbox.activities.body) :
            getWorkoutCategory(inbox.activities.body[k].name)
                = ClaimedCategory(inbox.activities.body[k].name)

\* Every workout generatePlan builds from the arguments, week by week,
\* with the fuel rate it was given: the interval rate on Tuesdays, the
\* steady rate on the other days and on race day.
GeneratedWithRate ==
    LET c == newContext(args)
    IN  UNION {
          {<<e, args.fuelInterval>> :
              e \in {generateQualityRun(c, w, weekStartOf(c, w))[k] :
                        k \in 1..Len(generateQualityRun(c, w, weekStartOf(c, w)))}}
          \cup
          {<<e, args.fuelSteady>> :
              e \in {(generateEasyRun(c, w, weekStartOf(c, w))
                      \o generateBonusRun(c, w, weekStartOf(c, w))
                      \o generateLongRun(c, w, weekStartOf(c, w)))[k] :
                        k \in 1..Len(generateEasyRun(c, w, weekStartOf(c, w))
                                      \o generateBonusRun(c, w, weekStartOf(c, w))
                                      \o generateLongRun(c, w, weekStartOf(c, w)))}}
          : w \in 0..(args.totalWeeks - 1)}

Handwritten(a) == a.id \in {"a6", "a8"}

\* C18: the fuel rate read back from the description of a generated workout
\* is the rate generatePlan was given, for every generator and week, and
\* for the activities the analysis selects; a selected activity without a
\* description, or with one that holds no fuel token, yields 10.
C18_FuelRateRoundTrip ==
    /\ hpc = "idle" =>
          \A p \in GeneratedWithRate :
              currentFuelOf(<<p[1].description>>) = p[2]
    /\ AnalysisResolved =>
          \A cat \in Categories :
              result[cat] # null =>
                  /\ ~Handwritten(SelectedOf(cat)) =>
                        result[cat].currentFuel =
                            IF cat = "longRun" THEN args.fuelSteady
                            ELSE args.fuelInterval
                  /\ Handwritten(SelectedOf(cat)) => result[cat].currentFuel = 10

\* A plan generated with the rates 12 and 205: the analysed interval run
\* reads back 12 and the analysed long run 205.
C18_Witness ==
    /\ AnalysisResolved
    /\ args.fuelInterval = 12 /\ args.fuelSteady = 205
    /\ result.longRun # null /\ result.interval # null
    /\ ~Handwritten(selected.long)
    /\ result.longRun.currentFuel = 205
    /\ result.interval.currentFuel = 12

RECURSIVE SumOf(_)
SumOf(seq) == IF Len(seq) = 0 THEN 0 ELSE Head(seq) + SumOf(Tail(seq))

MaxOf(seq) == CHOOSE x \in {seq[k] : k \in 1..Len(seq)} :
                  \A k \in 1..Len(seq) : seq[k] <= x

\* mean > 15 or max > 20, on values in tenths.
LooksLikeMgDl(g) == SumOf(g) > 150 * Len(g) \/ MaxOf(g) > 200

Plotted(cat) ==
    Len(GlucoseSeries(cat)) > 0 /\ Len(TimeAxis(cat)) > 1

\* The plot series and the trend are those of the series as delivered.
UsedUnchanged(cat) ==
    LET g == GlucoseSeries(cat)
    IN  /\ \A k \in 1..Min(Len(g), Len(result[cat].plotData)) :
              result[cat].plotData[k].glucose = g[k]
        /\ Seconds(cat) > 720 =>
              IsSlope(result[cat].trend, Delta(cat), Seconds(cat))

\* The plot series and the trend are those of the series divided by
\* 18.018: plotted * 18.018 = delivered, and trend * 18.018 = raw slope.
UsedConverted(cat) ==
    LET g == GlucoseSeries(cat)
    IN  /\ \A k \in 1..Min(Len(g), Len(result[cat].plotData)) :
              18018 * result[cat].plotData[k].glucose = 1000 * g[k]
        /\ Seconds(cat) > 720 =>
              18018 * result[cat].trend.n * Seconds(cat)
                  = 1000 * 360 * Delta(cat) * result[cat].trend.d

\* The half of C19 about values already in mmol/L.
MmolValuesUnchanged ==
    AnalysisResolved =>
        \A cat \in Categories :
            (result[cat] # null /\ Plotted(cat)
             /\ ~LooksLikeMgDl(GlucoseSeries(cat))) => UsedUnchanged(cat)

\* C19: a glucose series with mean <= 15 and max <= 20 is plotted and
\* sloped unchanged, and one with mean > 15 or max > 20 is divided by
\* 18.018 before the plot series and the trend are computed.
C19_GlucoseUnitsNormalised ==
    AnalysisResolved =>
        \A cat \in Categories :
            (result[cat] # null /\ Plotted(cat)) =>
                IF LooksLikeMgDl(GlucoseSeries(cat)) THEN UsedConverted(cat)
                ELSE UsedUnchanged(cat)

(***************************************************************************)
(* handleUpload and uploadToIntervals.  upl.log records, in order, every   *)
(* request sent and every request settled.  revision 3 is the function at  *)
(* line 2013, revision 1 the one at line 489, which awaits the DELETE      *)
(* outside any try.                                                        *)
(***************************************************************************)
UploadRevisions == {1, 3}

Outcomes == {"ok", "http_error", "network_error"}

Sent(request) == [request |-> request, event |-> "sent", outcome |-> ""]

Settled(request, outcome) ==
    [request |-> request, event |-> "settled", outcome |-> outcome]

IsSentAt(log, k, request) ==
    log[k].request = request /\ log[k].event = "sent"

IsSettledAt(log, k, request) ==
    log[k].request = request /\ log[k].event = "settled"

InFlight(log, request) ==
    /\ \E k \in 1..Len(log) : IsSentAt(log, k, request)
    /\ ~\E k \in 1..Len(log) : IsSettledAt(log, k, request)

OutcomeOf(log, request) ==
    log[CHOOSE k \in 1..Len(log) : IsSettledAt(log, k, request)].outcome

\* format(date, "yyyy-MM-dd'T'HH:mm:ss"), the day number standing for the
\* calendar date.
formatLocal(d) ==
    ToString(d \div 24) \o "T" \o PadStart2(d % 24) \o ":00:00"

\* events.map((e) => ({ category: "WORKOUT", ... }))
payloadOf(events) ==
    [k \in 1..Len(events) |->
        [category |-> "WORKOUT",
         start_date_local |-> formatLocal(events[k].start_date_local),
         name |-> events[k].name,
         description |-> events[k].description,
         external_id |-> events[k].external_id,
         type |-> events[k].type]]

\* The hours between the instant the plan was generated at and the instant
\* the upload starts at: none, one, and a day and two hours.
UploadDelays == {0, 1, 26}

\* The date-time a "yyyy-MM-dd'T'HH:mm:ss" text stands for, as the store
\* reads it.
parseLocal(text) ==
    LET t == CHOOSE k \in 1..Len(text) : charAt(text, k) = "T"
    IN  24 * parseInt(SubSeq(text, 1, t - 1))
        + parseInt(SubSeq(text, t + 1, t + 2))

\* todayStr and endStr of uploadToIntervals, now being new Date().
todayStr(now) == formatLocal(now)

endStr(now) == formatLocal(addDays(now, 365))

\* DELETE /events?oldest=...&newest=...&category=WORKOUT: the store without
\* its workouts dated in the range.
deleteWorkouts(store, oldest, newest) ==
    {r \in store :
        ~(/\ r.category = "WORKOUT"
          /\ parseLocal(r.start_date_local) >= parseLocal(oldest)
          /\ parseLocal(r.start_date_local) <= parseLocal(newest))}

\* POST /events/bulk?upsert=true: the records of the payload replace those
\* with the same external_id.
upsert(store, payload) ==
    {r \in store :
        \A k \in 1..Len(payload) : payload[k].external_id # r.external_id}
    \cup {payload[k] : k \in 1..Len(payload)}

\* The plan on the screen: the first events of the plan's first week.
UploadPlans(c) ==
    LET week == generateQualityRun(c, 0, weekStartOf(c, 0))
                \o generateEasyRun(c, 0, weekStartOf(c, 0))
                \o generateBonusRun(c, 0, weekStartOf(c, 0))
                \o generateLongRun(c, 0, weekStartOf(c, 0))
    IN  {SubSeq(week, 1, n) : n \in 0..MaxEvents}

\* The DELETE fired without await: the function goes on at once.
deleteNotAwaited(log) == TRUE

\* await fetch(..., { method: "DELETE" }): the function goes on once the
\* DELETE has settled.
deleteAwaited(log) == \E k \in 1..Len(log) : IsSettledAt(log, k, "DELETE")

\* The first revision awaits the DELETE outside any try: a fetch that
\* rejects ends the function; the third catches it and goes on.
deleteThrows(u) ==
    /\ u.revision = 1
    /\ \E k \in 1..Len(u.log) : IsSettledAt(u.log, k, "DELETE")
    /\ OutcomeOf(u.log, "DELETE") = "network_error"

\* What the bulk endpoint answers: a status and a body text.
PostResponses ==
    {[status |-> 200, text |-> "[]"],
     [status |-> 204, text |-> ""],
     [status |-> 403, text |-> "Access denied"],
     [status |-> 422, text |-> "start_date_local missing"],
     [status |-> 500, text |-> ""]}

\* A response that is ok whatever its status.
responseAlwaysOk(res) == TRUE

\* Response.ok: the status is in the range 200-299.
responseOk(res) == res.status >= 200 /\ res.status <= 299

\* new Error(message); the TypeError of a fetch that rejects.
Error(message) == [name |-> "Error", message |-> message]

FetchRejected == [name |-> "TypeError", message |-> "Failed to fetch"]

\* `${e}` of an Error.
errorToString(e) == e.name \o ": " \o e.message

\* The message of the Error thrown on !res.ok: the third revision gives the
\* status and the body text, the first the status alone.
apiError(revision, res) ==
    IF revision = 1
    THEN "API Error: " \o ToString(res.status)
    ELSE "API Error " \o ToString(res.status) \o ": " \o res.text

\* A promise rejected with e.
Thrown(e) == [thrown |-> e]

UploadSpecInit ==
    /\ HistoryInit
    /\ apiKey \in ApiKeys
    /\ hpc = "idle"
    /\ inbox = NoResponses
    /\ selected = NoneSelected
    /\ result = null
    /\ home = HomeInit
    /\ ScreenAtRest
    /\ CalendarAtRest /\ ViewAtRest
    /\ \E r \in UploadRevisions, events \in UploadPlans(ctx) :
          upl = [UploadInit EXCEPT !.revision = r, !.events = events]

UploadMissingApiKey ==
    /\ upl.pc = "idle"
    /\ apiKey = NoKey
    /\ home' = [home EXCEPT !.statusMsg = "Missing API Key"]
    /\ upl' = [upl EXCEPT !.pc = "returned"]
    /\ UNCHANGED <<apiKey, hpc, inbox, selected, result>>
    /\ UNCHANGED <<planVars, screen>>
    /\ UNCHANGED calendarVars

\* btoa throws on the key: uploadToIntervals rejects before any request
\* and handleUpload's catch reports it.
UploadRejectsEarly ==
    /\ upl.pc = "idle"
    /\ apiKey # NoKey
    /\ btoaThrows(apiKey)
    /\ home' = [home EXCEPT !.statusMsg = "Error: InvalidCharacterError"]
    /\ upl' = [upl EXCEPT !.pc = "returned", !.outcome = Rejected]
    /\ UNCHANGED <<apiKey, hpc, inbox, selected, result>>
    /\ UNCHANGED <<planVars, screen>>
    /\ UNCHANGED calendarVars

\* setIsUploading(true); uploadToIntervals sends the DELETE.
DeleteSent ==
    /\ upl.pc = "idle"
    /\ apiKey # NoKey
    /\ ~btoaThrows(apiKey)
    /\ home' = [home EXCEPT !.isUploading = TRUE]
    /\ \E delay \in UploadDelays :
          upl' = [upl EXCEPT !.pc = "awaitDelete",
                             !.now = today + delay,
                             !.log = Append(@, Sent("DELETE"))]
    /\ UNCHANGED <<apiKey, hpc, inbox, selected, result>>
    /\ UNCHANGED <<planVars, screen>>
    /\ UNCHANGED calendarVars

\* The network settles the DELETE; answered with a 2xx status, the
\* store has dropped the workouts of the range asked for.
DeleteSettles ==
    /\ InFlight(upl.log, "DELETE")
    /\ \E outcome \in Outcomes :
          upl' = [upl EXCEPT
                     !.log = Append(@, Settled("DELETE", outcome)),
                     !.store = IF outcome = "ok"
                               THEN deleteWorkouts(@, todayStr(upl.now),
                                                   endStr(upl.now))
                               ELSE @]
    /\ UNCHANGED <<analysisVars, planVars, screen>>
    /\ UNCHANGED calendarVars

\* Revision 1, DELETE rejected: uploadToIntervals rejects without a POST.
UploadAbortsOnDelete ==
    /\ upl.pc = "awaitDelete"
    /\ deleteAwaited(upl.log)
    /\ deleteThrows(upl)
    /\ home' = [home EXCEPT !.statusMsg = "Error: "
                                          \o errorToString(FetchRejected),
                            !.isUploading = FALSE]
    /\ upl' = [upl EXCEPT !.pc = "returned",
                          !.outcome = Thrown(FetchRejected)]
    /\ UNCHANGED <<apiKey, hpc, inbox, selected, result>>
    /\ UNCHANGED <<planVars, screen>>
    /\ UNCHANGED calendarVars

\* Past the DELETE: the payload is built and the bulk POST sent.
InsertSent ==
    /\ upl.pc = "awaitDelete"
    /\ deleteAwaited(upl.log)
    /\ ~deleteThrows(upl)
    /\ upl' = [upl EXCEPT !.pc = "awaitInsert",
                          !.payload = payloadOf(upl.events),
                          !.log = Append(@, Sent("POST"))]
    /\ UNCHANGED <<analysisVars, planVars, screen>>
    /\ UNCHANGED calendarVars

\* The network settles the POST: the fetch rejects, or resolves to a
\* response.
InsertSettles ==
    /\ InFlight(upl.log, "POST")
    /\ \/ upl' = [upl EXCEPT
                     !.log = Append(@, Settled("POST", "network_error"))]
       \/ \E res \in PostResponses :
             upl' = [upl EXCEPT
                        !.log = Append(@, Settled("POST",
                                    IF responseOk(res) THEN "ok"
                                                       ELSE "http_error")),
                        !.response = res,
                        !.store = IF responseOk(res)
                                  THEN upsert(@, upl.payload)
                                  ELSE @]
    /\ UNCHANGED <<analysisVars, planVars, screen>>
    /\ UNCHANGED calendarVars

\* uploadToIntervals returns payload.length or throws, and handleUpload
\* reports either.
UploadReturns ==
    /\ upl.pc = "awaitInsert"
    /\ \E k \in 1..Len(upl.log) : IsSettledAt(upl.log, k, "POST")
    /\ LET e == IF upl.response = null THEN FetchRejected
                ELSE Error(apiError(upl.revision, upl.response))
       IN  IF upl.response # null /\ responseOk(upl.response)
           THEN /\ upl' = [upl EXCEPT !.pc = "returned",
                                      !.outcome = [count |-> Len(upl.payload)]]
                /\ home' = [home EXCEPT
                               !.statusMsg = "Success! Uploaded "
                                             \o ToString(Len(upl.payload))
                                             \o " workouts.",
                               !.isUploading = FALSE]
           ELSE /\ upl' = [upl EXCEPT !.pc = "returned",
                                      !.outcome = Thrown(e)]
                /\ home' = [home EXCEPT
                               !.statusMsg = "Error: " \o errorToString(e),
                               !.isUploading = FALSE]
    /\ UNCHANGED <<apiKey, hpc, inbox, selected, result>>
    /\ UNCHANGED <<planVars, screen>>
    /\ UNCHANGED calendarVars

UploadNext ==
    \/ UploadMissingApiKey
    \/ UploadRejectsEarly
    \/ DeleteSent
    \/ DeleteSettles
    \/ UploadAbortsOnDelete
    \/ InsertSent
    \/ InsertSettles
    \/ UploadReturns

SpecUpload == UploadSpecInit /\ [][UploadNext]_vars

\* C20: whenever the bulk-insert POST is sent, the DELETE has been sent and
\* has settled before it, and the two requests are never in flight at the
\* same time.
C20_DeleteSettledBeforeInsert ==
    /\ \A k \in 1..Len(upl.log) :
          IsSentAt(upl.log, k, "POST") =>
              \E d \in 1..(k - 1), e \in 1..(k - 1) :
                  /\ d < e
                  /\ IsSentAt(upl.log, d, "DELETE")
                  /\ IsSettledAt(upl.log, e, "DELETE")
    /\ ~(InFlight(upl.log, "DELETE") /\ InFlight(upl.log, "POST"))

\* An upload whose DELETE fails with a non-2xx status and whose POST of two
\* events then succeeds.
C20_Witness ==
    /\ upl.pc = "returned"
    /\ upl.log = <<Sent("DELETE"), Settled("DELETE", "http_error"),
                   Sent("POST"), Settled("POST", "ok")>>
    /\ upl.outcome = [count |-> 2]

\* The bulk POST has been answered with res and the upload has ended.
AnsweredWith(res) ==
    /\ upl.pc = "returned"
    /\ upl.response = res

\* C21: in the third revision a non-2xx answer to the bulk POST never gives a
\* count: uploadToIntervals throws an Error whose message holds the status
\* and the body text, and the status message holds that error; a 2xx answer
\* gives the number of events submitted.
C21_NonOkInsertThrowsStatusAndBody ==
    \A res \in PostResponses :
        (upl.revision = 3 /\ AnsweredWith(res)) =>
            IF res.status \in 200..299
            THEN upl.outcome = [count |-> Len(upl.events)]
            ELSE /\ "thrown" \in DOMAIN upl.outcome
                 /\ includes(upl.outcome.thrown.message,
                             ToString(res.status))
                 /\ includes(upl.outcome.thrown.message, res.text)
                 /\ includes(home.statusMsg, upl.outcome.thrown.message)

\* The third revision gets 422 with a body text for two events: the status
\* message holds both.
C21_Witness ==
    /\ upl.revision = 3
    /\ Len(upl.events) = 2
    /\ AnsweredWith([status |-> 422, text |-> "start_date_local missing"])
    /\ home.statusMsg
         = "Error: Error: API Error 422: start_date_local missing"

(***************************************************************************)
(* fetchCalendarData and fetchActivityDetails.                             *)
(***************************************************************************)
\* The two list requests' answers may hold this many activities.
MaxCalendarActivities == 5

batchSize == 3

\* The activities endpoint's list, most recent first: runs, a ride between
\* them and a treadmill run; hours since Monday 00:00 of day 0.
CalendarPool ==
    <<[id |-> "i107", name |-> "W03 Tue Hills eco16", type |-> "Run",
       start_date_local |-> 24 * 15 + 12, description |-> "",
       distance |-> 9000, moving_time |-> 3300,
       average_hr |-> none, max_hr |-> none],
      [id |-> "i106", name |-> "Long Ride", type |-> "Ride",
       start_date_local |-> 24 * 14 + 9, description |-> "",
       distance |-> 60000, moving_time |-> 9000,
       average_hr |-> some(131), max_hr |-> some(160)],
      [id |-> "i105", name |-> "W02 Sun LR eco16", type |-> "Run",
       start_date_local |-> 24 * 13 + 12, description |-> "FUEL: 10g/10m",
       distance |-> 12000, moving_time |-> 4500,
       average_hr |-> some(139), max_hr |-> some(158)],
      [id |-> "i104", name |-> "Treadmill", type |-> "VirtualRun",
       start_date_local |-> 24 * 13 + 7, description |-> "",
       distance |-> 0, moving_time |-> 1200,
       average_hr |-> some(128), max_hr |-> none],
      [id |-> "i103", name |-> "W02 Thu Easy eco16", type |-> "Run",
       start_date_local |-> 24 * 10 + 12, description |-> "",
       distance |-> 6000, moving_time |-> 2400,
       average_hr |-> some(133), max_hr |-> some(149)],
      [id |-> "i102", name |-> "W02 Tue Tempo eco16", type |-> "Run",
       start_date_local |-> 24 * 8 + 12, description |-> "",
       distance |-> 8000, moving_time |-> 3000,
       average_hr |-> some(150), max_hr |-> some(171)],
      [id |-> "i101", name |-> "W01 Sun LR eco16", type |-> "Run",
       start_date_local |-> 24 * 15 + 12, description |-> "",
       distance |-> 10000, moving_time |-> 3900,
       average_hr |-> some(138), max_hr |-> some(155)]>>

\* The events endpoint's list: a workout run on its day, a note, the race,
\* a workout still ahead and one without a name.
PlannedPool ==
    <<[id |-> 31, category |-> "WORKOUT", name |-> "W02 Sun LR eco16",
       start_date_local |-> 24 * 13 + 12, description |-> "FUEL: 10g/10m"],
      [id |-> 32, category |-> "NOTE", name |-> "Physio",
       start_date_local |-> 24 * 16 + 8, description |-> ""],
      [id |-> 33, category |-> "WORKOUT", name |-> "RACE DAY eco16",
       start_date_local |-> 24 * 27 + 10, description |-> "RACE DAY!"],
      [id |-> 34, category |-> "WORKOUT", name |-> "W04 Tue Tempo eco16",
       start_date_local |-> 24 * 22 + 12, description |-> ""],
      [id |-> 35, category |-> "WORKOUT", name |-> "",
       start_date_local |-> 24 * 9 + 12, description |-> ""]>>

ActivityListResponses ==
    {Failure(kind) : kind \in FailureKinds}
    \cup {Ok(SubSeq(CalendarPool, 1, n)) : n \in 0..MaxCalendarActivities}

EventListResponses ==
    {Failure("network_error"), Failure("bad_body"), Ok(<<>>),
     Ok(PlannedPool)}

\* The streams of an activity: every activity has heart rates of its own,
\* the long run glucose (in mg/dL) and pace as well, and the treadmill run
\* no heart rate.
streamsOf(id) ==
    LET k == CHOOSE k \in 1..Len(CalendarPool) : CalendarPool[k].id = id
        hr == <<110 + 3 * k, 140 + k, 150 + 5 * k>>
    IN  IF id = "i104"
        THEN <<stream("time", <<0, 600, 1200>>),
               stream("cadence", <<80, 82, 84>>)>>
        ELSE IF id = "i105"
        THEN <<stream("time", <<0, 1800, 3570>>), stream("heartrate", hr),
               stream("bloodglucose", <<180, 150, 90>>),
               stream("pace", <<6, 6, 7>>)>>
        ELSE <<stream("time", <<0, 1800, 3600>>), stream("heartrate", hr)>>

\* What the streams endpoint may answer for an activity.
DetailResponses(id) ==
    {Failure("network_error"), Failure("http_error"), Ok(streamsOf(id))}

\* hrData.forEach of calculateHRZones: samples per zone, the zone limits
\* being 80, 88, 94 and 100 percent of lthr.
calculateHRZones(hrData, lthr) ==
    LET zone(hr) == IF 100 * hr <= 80 * lthr THEN 1
                    ELSE IF 100 * hr <= 88 * lthr THEN 2
                    ELSE IF 100 * hr <= 94 * lthr THEN 3
                    ELSE IF 100 * hr <= 100 * lthr THEN 4
                    ELSE 5
        count(z) == Cardinality({k \in 1..Len(hrData) : zone(hrData[k]) = z})
    IN  [z1 |-> count(1), z2 |-> count(2), z3 |-> count(3),
         z4 |-> count(4), z5 |-> count(5)]

\* Math.round(sum / length) of non-negative integers.
roundMean(data) == (2 * SumOf(data) + Len(data)) \div (2 * Len(data))

\* timeData.map((t, idx) => ({ time: Math.round(t / 60), value: ... })),
\* the values being those of data after conversion.
DataPoints(timeData, values) ==
    [idx \in 1..Len(timeData) |->
        [time |-> roundMinutes(timeData[idx]),
         value |-> IF idx <= Len(values) THEN some(values[idx]) ELSE none]]

\* The result of fetchActivityDetails with no field set.
NoDetails ==
    [hrZones |-> none, streamData |-> none, avgHr |-> none, maxHr |-> none]

\* fetchActivityDetails once fetchStreams has answered: glucose is divided
\* by 18.018 (kept as the fraction 1000 g / 18018), cadence doubled.
fetchActivityDetails(response, lthr) ==
    LET streams == fetchStreams(response)
        timeData == lastData(streams, {"time"})
        hrData == lastData(streams, {"heartrate"})
        glucoseData == lastData(streams, GlucoseTypes)
        paceData == lastData(streams, {"pace"})
        cadenceData == lastData(streams, {"cadence"})
        altitudeData == lastData(streams, {"altitude"})
        powerData == lastData(streams, {"watts", "power"})
        series(data) ==
            IF Len(data) > 0 THEN some(DataPoints(timeData, data)) ELSE none
        streamData ==
            [glucose |-> series([k \in 1..Len(glucoseData) |->
                                    Frac(1000 * glucoseData[k], 18018)]),
             heartrate |-> series(hrData),
             pace |-> series(paceData),
             cadence |-> series([k \in 1..Len(cadenceData) |->
                                    cadenceData[k] * 2]),
             altitude |-> series(altitudeData),
             power |-> series(powerData)]
        hasKeys == \E key \in DOMAIN streamData : streamData[key] # none
    IN  [hrZones |-> IF Len(hrData) > 0
                     THEN some(calculateHRZones(hrData, lthr)) ELSE none,
         avgHr |-> IF Len(hrData) > 0 THEN some(roundMean(hrData)) ELSE none,
         maxHr |-> IF Len(hrData) > 0 THEN some(MaxOf(hrData)) ELSE none,
         streamData |-> IF Len(timeData) > 0 /\ hasKeys
                        THEN some(streamData) ELSE none]

\* activities.filter((a) => a.type === "Run" || a.type === "VirtualRun")
RECURSIVE filterRuns(_)
filterRuns(activities) ==
    IF Len(activities) = 0 THEN <<>>
    ELSE IF Head(activities).type \in {"Run", "VirtualRun"}
         THEN <<Head(activities)>> \o filterRuns(Tail(activities))
    ELSE filterRuns(Tail(activities))

\* A slice that runs to the end of the list whatever its end index.
sliceToEnd(list, from, to) == SubSeq(list, from + 1, Len(list))

\* Array.prototype.slice(from, to) on 0-based indices.
slice(list, from, to) == SubSeq(list, from + 1, Min(to, Len(list)))

\* The slots (1-based indices into runActivities) of the batch at i.
batchSlots(c) ==
    {c.i + k : k \in 1..Len(slice(c.runActivities, c.i, c.i + batchSize))}

DetailSent(slot) == [event |-> "sent", slot |-> slot]

DetailSettled(slot) == [event |-> "settled", slot |-> slot]

DelaySet == [event |-> "delay", slot |-> 0]

DelayElapsedEntry == [event |-> "elapsed", slot |-> 0]

\* batch.map((activity) => fetchActivityDetails(activity.id, apiKey)): the
\* requests go out in batch order.
RECURSIVE sendAll(_, _, _)
sendAll(log, first, last) ==
    IF first > last THEN log
    ELSE sendAll(Append(log, DetailSent(first)), first + 1, last)

\* The position in the log at which a slot's fetch settled.
settledAt(log, slot) ==
    CHOOSE k \in 1..Len(log) : log[k] = DetailSettled(slot)

\* The results of a batch in the order in which the fetches settled.
inCompletionOrder(c, slots) ==
    LET rank(p) == Cardinality({q \in slots :
                       settledAt(c.log, q) <= settledAt(c.log, p)})
    IN  [k \in 1..Cardinality(slots) |->
            c.details[CHOOSE p \in slots : rank(p) = k]]

\* await Promise.allSettled(batchPromises) mapped to r.value: the results
\* in the order of the batch, whatever the order of completion.
allSettled(c, slots) ==
    [k \in 1..Cardinality(slots) |-> c.details[c.i + k]]

\* substring(0, 10)
substring10(s) == SubSeq(s, 1, Min(10, Len(s)))

\* pace = (moving_time / 60) / (distance / 1000) when both are non-zero,
\* as the fraction n/d.
paceOf(activity) ==
    IF activity.distance # 0 /\ activity.moving_time # 0
    THEN some(Frac(1000 * activity.moving_time, 60 * activity.distance))
    ELSE none

\* details.avgHr || activity.average_hr
orElse(a, b) == IF a # none /\ a # some(0) THEN a ELSE b

\* The entry pushed for a completed run.
completedEvent(activity, details) ==
    [id |-> "activity-" \o activity.id,
     date |-> activity.start_date_local,
     name |-> activity.name,
     description |-> activity.description,
     type |-> "completed",
     category |-> getWorkoutCategory(activity.name),
     distance |-> some(activity.distance),
     duration |-> some(activity.moving_time),
     avgHr |-> orElse(details.avgHr, activity.average_hr),
     maxHr |-> orElse(details.maxHr, activity.max_hr),
     pace |-> paceOf(activity),
     hrZones |-> details.hrZones,
     streamData |-> details.streamData]

\* runActivities.some(...): a run of the same day whose name holds the
\* first ten characters of the event's, or the other way round.
hasMatchingActivity(runActivities, event) ==
    \E k \in 1..Len(runActivities) :
        LET activity == runActivities[k]
            a == toLowerCase(activity.name)
            n == toLowerCase(event.name)
        IN  /\ isSameDay(activity.start_date_local, event.start_date_local)
            /\ includes(a, substring10(n)) \/ includes(n, substring10(a))

\* The entry pushed for a planned workout.
plannedEvent(event) ==
    LET isRace == includes(toLowerCase(event.name), "race")
    IN  [id |-> "event-" \o ToString(event.id),
         date |-> event.start_date_local,
         name |-> event.name,
         description |-> event.description,
         type |-> IF isRace THEN "race" ELSE "planned",
         category |-> IF isRace THEN "race"
                      ELSE getWorkoutCategory(event.name),
         distance |-> none, duration |-> none, avgHr |-> none,
         maxHr |-> none, pace |-> none, hrZones |-> none,
         streamData |-> none]

\* The for loop over events: workouts not yet run.
RECURSIVE plannedEntries(_, _)
plannedEntries(runActivities, events) ==
    IF Len(events) = 0 THEN <<>>
    ELSE LET event == Head(events)
             rest == plannedEntries(runActivities, Tail(events))
         IN  IF event.category # "WORKOUT" THEN rest
             ELSE IF hasMatchingActivity(runActivities, event) THEN rest
             ELSE <<plannedEvent(event)>> \o rest

\* calendarEvents.sort((a, b) => a.date - b.date): earliest first, equal
\* dates in the order pushed.
RECURSIVE insertAscending(_, _)
insertAscending(sorted, e) ==
    IF Len(sorted) = 0 THEN <<e>>
    ELSE IF Head(sorted).date <= e.date
         THEN <<Head(sorted)>> \o insertAscending(Tail(sorted), e)
    ELSE <<e>> \o sorted

RECURSIVE sortAscending(_)
sortAscending(list) ==
    IF Len(list) = 0 THEN <<>>
    ELSE insertAscending(sortAscending(SubSeq(list, 1, Len(list) - 1)),
                         list[Len(list)])

\* Everything after the batch loop: the entries of the runs with their
\* details, those of the planned workouts, sorted.
calendarEvents(runActivities, allDetails, events) ==
    sortAscending(
        [k \in 1..Len(runActivities) |->
            completedEvent(runActivities[k], allDetails[k])]
        \o plannedEntries(runActivities, events))

\* A promise fulfilled with value.
Fulfilled(value) == [value |-> value]

InvalidCharacterError ==
    [name |-> "InvalidCharacterError", message |-> "Invalid character"]

CalendarSpecInit ==
    /\ HistoryInit
    /\ apiKey \in ApiKeys \ {NoKey}
    /\ hpc = "idle"
    /\ inbox = NoResponses
    /\ selected = NoneSelected
    /\ result = null
    /\ home = HomeInit
    /\ ScreenAtRest /\ UploadAtRest
    /\ CalendarAtRest /\ ViewAtRest

\* btoa throws on the key, ahead of the try: the promise rejects.
CalendarRejectsEarly ==
    /\ cal.pc = "idle"
    /\ btoaThrows(apiKey)
    /\ cal' = [cal EXCEPT !.pc = "returned",
                          !.outcome = Thrown(InvalidCharacterError)]
    /\ UNCHANGED <<planVars, analysisVars, screen, upl, view>>

\* The two list requests go out together.
CalendarRequested ==
    /\ cal.pc = "idle"
    /\ ~btoaThrows(apiKey)
    /\ cal' = [cal EXCEPT !.pc = "lists"]
    /\ UNCHANGED <<planVars, analysisVars, screen, upl, view>>

CalendarActivitiesSettle ==
    /\ cal.pc = "lists"
    /\ cal.activities = null
    /\ \E response \in ActivityListResponses :
          cal' = [cal EXCEPT !.activities = response]
    /\ UNCHANGED <<planVars, analysisVars, screen, upl, view>>

CalendarEventsSettle ==
    /\ cal.pc = "lists"
    /\ cal.events = null
    /\ \E response \in EventListResponses :
          cal' = [cal EXCEPT !.events = response]
    /\ UNCHANGED <<planVars, analysisVars, screen, upl, view>>

\* Both lists have settled.  A body that does not parse throws into the
\* catch, which returns []; a rejected or non-2xx list counts as empty.
\* Without runs the entries are built at once, otherwise the first batch
\* of detail requests goes out.
CalendarListsSettled ==
    /\ cal.pc = "lists"
    /\ cal.activities # null
    /\ cal.events # null
    /\ LET runs == filterRuns(fetchStreams(cal.activities))
           planned == fetchStreams(cal.events)
           first == [cal EXCEPT !.runActivities = runs,
                                !.plannedEvents = planned]
       IN  IF "bad_body" \in {cal.activities.kind, cal.events.kind}
           THEN cal' = [cal EXCEPT !.pc = "returned",
                                   !.outcome = Fulfilled(<<>>)]
           ELSE IF Len(runs) = 0
           THEN cal' = [first EXCEPT
                          !.pc = "returned",
                          !.outcome =
                              Fulfilled(calendarEvents(runs, <<>>, planned))]
           ELSE cal' = [first EXCEPT
                          !.pc = "batch",
                          !.log = sendAll(@, 1,
                                     Len(slice(runs, 0, batchSize)))]
    /\ UNCHANGED <<planVars, analysisVars, screen, upl, view>>

\* One detail request settles: fetchActivityDetails resolves to its
\* result, {} when fetchStreams gave nothing.
DetailSettles ==
    /\ cal.pc = "batch"
    /\ \E slot \in 1..Len(cal.runActivities) :
          /\ \E k \in 1..Len(cal.log) : cal.log[k] = DetailSent(slot)
          /\ ~\E k \in 1..Len(cal.log) : cal.log[k] = DetailSettled(slot)
          /\ \E response \in DetailResponses(cal.runActivities[slot].id) :
                cal' = [cal EXCEPT
                          !.details =
                              [p \in DOMAIN cal.details \cup {slot} |->
                                  IF p = slot
                                  THEN fetchActivityDetails(response,
                                                            DEFAULT_LTHR)
                                  ELSE cal.details[p]],
                          !.log = Append(@, DetailSettled(slot))]
    /\ UNCHANGED <<planVars, analysisVars, screen, upl, view>>

\* Every request of the batch has settled: its results are pushed; then
\* either the delay is set, or the loop ends and the entries are built,
\* sorted and returned.
BatchSettled ==
    /\ cal.pc = "batch"
    /\ \A slot \in batchSlots(cal) :
          \E k \in 1..Len(cal.log) : cal.log[k] = DetailSettled(slot)
    /\ LET all == cal.allDetails \o allSettled(cal, batchSlots(cal))
       IN  IF cal.i + batchSize < Len(cal.runActivities)
           THEN cal' = [cal EXCEPT !.pc = "delay",
                                   !.allDetails = all,
                                   !.log = Append(@, DelaySet)]
           ELSE cal' = [cal EXCEPT
                          !.pc = "returned",
                          !.allDetails = all,
                          !.outcome =
                              Fulfilled(calendarEvents(cal.runActivities, all,
                                                      cal.plannedEvents))]
    /\ UNCHANGED <<planVars, analysisVars, screen, upl, view>>

\* The 100 ms timer fires: the next batch goes out.
DelayElapsed ==
    /\ cal.pc = "delay"
    /\ LET next == [cal EXCEPT !.i = @ + batchSize]
       IN  cal' = [next EXCEPT
                      !.pc = "batch",
                      !.log = sendAll(Append(@, DelayElapsedEntry),
                                      next.i + 1,
                                      next.i + Cardinality(batchSlots(next)))]
    /\ UNCHANGED <<planVars, analysisVars, screen, upl, view>>

CalendarNext ==
    \/ CalendarRejectsEarly
    \/ CalendarRequested
    \/ CalendarActivitiesSettle
    \/ CalendarEventsSettle
    \/ CalendarListsSettled
    \/ DetailSettles
    \/ BatchSettled
    \/ DelayElapsed

SpecCalendar == CalendarSpecInit /\ [][CalendarNext]_vars

\* The slots whose detail request is in flight.
DetailsInFlight ==
    {slot \in 1..Len(cal.runActivities) :
        /\ \E k \in 1..Len(cal.log) : cal.log[k] = DetailSent(slot)
        /\ ~\E k \in 1..Len(cal.log) : cal.log[k] = DetailSettled(slot)}

\* Before position k of the log every slot of the batch ahead of slot's
\* has settled, and the delay has been set and has elapsed after that.
PreviousBatchDone(k, slot) ==
    LET firstOfBatch == ((slot - 1) \div 3) * 3 + 1
        previous == (firstOfBatch - 3)..(firstOfBatch - 1)
    IN  \E d \in 1..(k - 1), e \in 1..(k - 1) :
            /\ d < e
            /\ cal.log[d] = DelaySet
            /\ cal.log[e] = DelayElapsedEntry
            /\ \A p \in previous :
                  \E j \in 1..(d - 1) : cal.log[j] = DetailSettled(p)

\* C22: at most 3 detail fetches are in flight, and a fetch of a later
\* batch is sent only after every fetch of the batch before it has settled
\* and the delay set after that has elapsed.
C22_AtMostThreeDetailFetchesInFlight ==
    /\ Cardinality(DetailsInFlight) <= 3
    /\ \A k \in 1..Len(cal.log) :
          (cal.log[k].event = "sent" /\ cal.log[k].slot > 3) =>
              PreviousBatchDone(k, cal.log[k].slot)

\* Four runs: the three of the first batch have settled, the third one
\* first, and the fourth is in flight after the delay.
C22_Witness ==
    /\ Len(cal.runActivities) = 4
    /\ DetailsInFlight = {4}
    /\ cal.log[4] = DetailSettled(3)
    /\ cal.log[Len(cal.log) - 1] = DelayElapsedEntry

\* The details fetchActivityDetails gives for a run: those of its own
\* streams, or the empty record when the fetch failed.
OwnDetails(activity) ==
    {fetchActivityDetails(response, DEFAULT_LTHR) :
        response \in DetailResponses(activity.id)}

\* The returned list holds an entry for the run in that slot which carries
\* the details fetched for it.
EntryCarries(slot) ==
    \E k \in 1..Len(cal.outcome.value) :
        LET entry == cal.outcome.value[k]
            activity == cal.runActivities[slot]
        IN  /\ entry.id = "activity-" \o activity.id
            /\ entry.name = activity.name
            /\ entry.hrZones = cal.details[slot].hrZones
            /\ entry.streamData = cal.details[slot].streamData
            /\ entry.avgHr = orElse(cal.details[slot].avgHr,
                                    activity.average_hr)

\* C23: allDetails holds, slot for slot and in the order of runActivities,
\* what the fetch for that slot's own activity gave ({} when it failed),
\* whatever the others gave and in whatever order they settled; after the
\* last batch it has one entry per run and every completed entry of the
\* returned list carries the details of its own activity.
C23_DetailsStayInTheirSlots ==
    /\ \A slot \in 1..Len(cal.allDetails) :
          /\ cal.allDetails[slot] = cal.details[slot]
          /\ cal.details[slot] \in OwnDetails(cal.runActivities[slot])
    /\ (cal.pc = "returned" /\ cal.outcome # null
            /\ "value" \in DOMAIN cal.outcome) =>
          /\ Len(cal.allDetails) = Len(cal.runActivities)
          /\ \A slot \in 1..Len(cal.runActivities) : EntryCarries(slot)

\* Four runs returned: the second fetch failed and settled last of its
\* batch, the third settled first, the siblings kept their details, and
\* the run of the fourth slot, the earliest, comes first in the list.
C23_Witness ==
    /\ cal.pc = "returned"
    /\ Len(cal.runActivities) = 4
    /\ cal.log[4] = DetailSettled(3)
    /\ cal.log[6] = DetailSettled(2)
    /\ cal.allDetails[2] = NoDetails
    /\ \A slot \in {1, 3, 4} : cal.allDetails[slot] # NoDetails
    /\ cal.events = Ok(<<>>)
    /\ cal.outcome.value[1].id = "activity-i103"

\* The position in p of the event with that id, 0 when there is none.
IndexOf(p, id) ==
    IF \E k \in 1..Len(p) : p[k].external_id = id
    THEN CHOOSE k \in 1..Len(p) : p[k].external_id = id
    ELSE 0

WeekdayTags == <<"tue", "thu", "sat", "sun">>

\* C24: a returned plan is in strictly increasing start-time order; the
\* events of an earlier week come before those of a later one, within a
\* week Tuesday comes before Thursday before Saturday before Sunday, and
\* the race-day event, when present, is the last and the latest element.
C24_PlanInStartTimeOrder ==
    Returned =>
        LET p == LastPlan
        IN  /\ \A k \in 1..(Len(p) - 1) :
                  p[k].start_date_local < p[k + 1].start_date_local
            /\ \A w1 \in 1..args.totalWeeks, w2 \in 1..args.totalWeeks,
                  t1 \in 1..4, t2 \in 1..4 :
                  LET a == IndexOf(p, IdOf(WeekdayTags[t1], w1))
                      b == IndexOf(p, IdOf(WeekdayTags[t2], w2))
                  IN  (a # 0 /\ b # 0 /\ (w1 < w2 \/ (w1 = w2 /\ t1 < t2)))
                          => a < b
            /\ IndexOf(p, RaceId) # 0 =>
                  /\ IndexOf(p, RaceId) = Len(p)
                  /\ \A k \in 1..(Len(p) - 1) :
                        p[k].start_date_local < p[Len(p)].start_date_local

\* A plan of several weeks for a race on a Sunday: the race week holds the
\* Tuesday, Thursday and Saturday workouts and, two hours short of a day
\* after the Saturday one, the race-day event as its last element.
C24_Witness ==
    /\ Returned
    /\ RaceDay % 7 = 6
    /\ args.totalWeeks >= 3
    /\ Len(LastPlan) >= 10
    /\ IndexOf(LastPlan, RaceId) = Len(LastPlan)
    /\ IndexOf(LastPlan, IdOf("sat", args.totalWeeks)) = Len(LastPlan) - 1
    /\ LastPlan[Len(LastPlan)].start_date_local
         = LastPlan[Len(LastPlan) - 1].start_date_local + 22

(***************************************************************************)
(* The generator's names under the analyzer's classifier, over several     *)
(* tag prefixes.                                                           *)
(***************************************************************************)
\* Tag prefixes: the default one, one that holds "lr" in capitals and one
\* that holds "long" inside a word.
NamingPrefixes == {"eco16", "LR24", "Oblong"}

NamingInit ==
    /\ \E p \in NamingPrefixes, tw \in TotalWeeksRange :
          args = [fuelInterval |-> 5, fuelSteady |-> 10,
                  raceDateStr |-> 7 * MaxWeeks + 13, raceDist |-> 16,
                  prefix |-> p, totalWeeks |-> tw, startKm |-> 8,
                  lthr |-> DEFAULT_LTHR]
    /\ today \in {0, 168 * 3 + 11}
    /\ pc = "idle"
    /\ ctx = newContext(args)
    /\ i = 0
    /\ acc = <<>>
    /\ plans = <<>>
    /\ AnalysisAtRest /\ ScreenAtRest /\ UploadAtRest
    /\ CalendarAtRest /\ ViewAtRest

SpecNaming == NamingInit /\ [][Next]_vars

\* The events of p that one weekday's generator made.
OfWeekday(p, tag) ==
    {e \in EventsOf(p) :
        \E w \in 1..args.totalWeeks : e.external_id = IdOf(tag, w)}

NamesAgree(p) ==
    /\ \A e \in OfWeekday(p, "tue") : getWorkoutCategory(e.name) = "interval"
    /\ \A e \in OfWeekday(p, "sun") : getWorkoutCategory(e.name) = "long"

\* C25: in every returned plan, whatever the tag prefix, getWorkoutCategory
\* classifies each Tuesday session (Tempo or Hills) as interval and each
\* Sunday long run as long.
C25_GeneratedNamesClassifiedByKind ==
    Returned => NamesAgree(LastPlan)

\* The agreement for a prefix that holds neither "lr" nor "long", in any
\* mix of capitals.
NamesAgreeUnlessPrefixCollides ==
    (Returned /\ getWorkoutCategory(args.prefix) = "other")
        => NamesAgree(LastPlan)

\* What the planner screen holds for a category: its fuel rate and its
\* stored analysis.
HeldFor(s, cat) ==
    IF cat = "longRun" THEN <<s.fuelLong, s.longRunAnalysis>>
    ELSE IF cat = "easyRun" THEN <<s.fuelEasy, s.easyRunAnalysis>>
    ELSE <<s.fuelInterval, s.intervalAnalysis>>

ScreenCategories == {"longRun", "easyRun", "interval"}

\* C26: a step of handleAnalyze changes the fuel rate or the stored
\* analysis of a category only when it is the step that receives the
\* analysis result and the result holds a record for that category; a
\* category that is null in the result, every category of a failed
\* analysis included, keeps both.
C26_NullCategoryLeftUnchanged ==
    [][\A cat \in ScreenCategories :
          HeldFor(screen', cat) # HeldFor(screen, cat) =>
              /\ screen.pc = "awaiting"
              /\ screen'.result[cat] # null]_vars

\* After an earlier analysis a new one returns a long run and nothing
\* else: the long-run rate and analysis are new, the easy and interval
\* ones are those of before.
C26_Witness ==
    /\ screen.pc = "returned"
    /\ screen.result # null
    /\ screen.result.longRun # null
    /\ screen.result.easyRun = null
    /\ screen.result.interval = null
    /\ HeldFor(screen, "longRun")
         = <<9, [trend |-> Frac(-9, 1), plotData |-> <<>>]>>
    /\ HeldFor(screen, "easyRun") = HeldFor(ScreenAnalysedBefore, "easyRun")
    /\ HeldFor(screen, "interval") = HeldFor(ScreenAnalysedBefore, "interval")

(***************************************************************************)
(* Generate, then Upload: handleGenerate, handleUpload and the workouts    *)
(* the external store holds.                                               *)
(***************************************************************************)
MaxSyncWeeks == 2

\* generatePlan as one function of its arguments and of new Date().
RECURSIVE weeksFrom(_, _, _)
weeksFrom(c, now, weekIdx) ==
    IF weekIdx >= c.totalWeeks THEN <<>>
    ELSE LET weekStart == weekStartOf(c, weekIdx)
             week == IF weekElapsed(weekStart, now) THEN <<>>
                     ELSE generateQualityRun(c, weekIdx, weekStart)
                          \o generateEasyRun(c, weekIdx, weekStart)
                          \o generateBonusRun(c, weekIdx, weekStart)
                          \o generateLongRun(c, weekIdx, weekStart)
         IN  week \o weeksFrom(c, now, weekIdx + 1)

generatePlan(a, now) == weeksFrom(newContext(a), now, 0)

\* events.filter((e) => e.start_date_local >= from)
RECURSIVE filterFrom(_, _)
filterFrom(events, from) ==
    IF Len(events) = 0 THEN <<>>
    ELSE IF Head(events).start_date_local >= from
         THEN <<Head(events)>> \o filterFrom(Tail(events), from)
    ELSE filterFrom(Tail(events), from)

\* today.setHours(0, 0, 0, 0)
midnight(now) == setHours(now, 0)

\* tomorrow.setDate(tomorrow.getDate() + 1)
tomorrow(now) == addDays(midnight(now), 1)

\* The instants Generate is pressed at: in each week of the plan Monday at
\* 11:00, Tuesday at 11:00 (an hour ahead of the session) and at 13:00,
\* and Sunday at 09:00.
SyncInstants(a) ==
    {addWeeks(newContext(a).planStartMonday, w) + o :
        w \in 0..(a.totalWeeks - 1), o \in {11, 35, 37, 153}}

\* What an upload of the whole plan, made before the plan began, left in
\* the store.
uploadedEarlier(a) ==
    LET payload == payloadOf(generatePlan(a, newContext(a).planStartMonday))
    IN  {payload[k] : k \in 1..Len(payload)}

SyncInit ==
    /\ \E tw \in 1..MaxSyncWeeks :
          args = [fuelInterval |-> 5, fuelSteady |-> 10,
                  raceDateStr |-> 7 * MaxWeeks + 12, raceDist |-> 16,
                  prefix |-> "eco16", totalWeeks |-> tw, startKm |-> 8,
                  lthr |-> DEFAULT_LTHR]
    /\ today \in SyncInstants(args)
    /\ pc = "idle"
    /\ ctx = newContext(args)
    /\ i = 0
    /\ acc = <<>>
    /\ plans = <<>>
    /\ apiKey = <<51, 102, 57>>
    /\ hpc = "idle"
    /\ inbox = NoResponses
    /\ selected = NoneSelected
    /\ result = null
    /\ home = HomeInit
    /\ ScreenAtRest
    /\ CalendarAtRest /\ ViewAtRest
    /\ \E store \in {{}, uploadedEarlier(args)} :
          upl = [UploadInit EXCEPT !.store = store]

\* handleGenerate of the screens with two fuel rates: the plan from today
\* 00:00 on.
GenerateFromToday ==
    /\ upl.pc = "idle"
    /\ upl.handler = ""
    /\ upl' = [upl EXCEPT
                  !.handler = "fromToday",
                  !.events = filterFrom(generatePlan(args, today),
                                        midnight(today))]
    /\ home' = [home EXCEPT !.statusMsg = ""]
    /\ UNCHANGED <<apiKey, hpc, inbox, selected, result>>
    /\ UNCHANGED <<planVars, screen>>
    /\ UNCHANGED calendarVars

\* handleGenerate of the planner screen: the plan from tomorrow 00:00 on.
\* (Its third fuel rate does not bear on dates and ids.)
GenerateFromTomorrow ==
    /\ upl.pc = "idle"
    /\ upl.handler = ""
    /\ upl' = [upl EXCEPT
                  !.handler = "fromTomorrow",
                  !.events = filterFrom(generatePlan(args, today),
                                        tomorrow(today))]
    /\ home' = [home EXCEPT !.statusMsg = ""]
    /\ UNCHANGED <<apiKey, hpc, inbox, selected, result>>
    /\ UNCHANGED <<planVars, screen>>
    /\ UNCHANGED calendarVars

SyncNext ==
    \/ GenerateFromToday
    \/ GenerateFromTomorrow
    \/ DeleteSent
    \/ DeleteSettles
    \/ InsertSent
    \/ InsertSettles
    \/ UploadReturns

SpecSync == SyncInit /\ [][SyncNext]_vars

\* The step model of generatePlan and the function agree.
PlanAsFunction == Returned => LastPlan = generatePlan(args, today)

UploadSucceeded ==
    /\ upl.pc = "returned"
    /\ "count" \in DOMAIN upl.outcome

\* The store holds the workout at its date.
InStore(e) ==
    \E r \in upl.store :
        /\ r.external_id = e.external_id
        /\ r.category = "WORKOUT"
        /\ parseLocal(r.start_date_local) = e.start_date_local

\* The workouts of the plan that lie after the instant of the upload and
\* before the race date.
Pending ==
    {e \in EventsOf(generatePlan(args, today)) :
        /\ e.start_date_local > upl.now
        /\ e.start_date_local < RaceMidnight}

\* C27: once Generate and then a successful Upload have run, every workout
\* of the plan dated after the instant of the upload and before the race
\* date is in the external store.
C27_PendingWorkoutsInStoreAfterUpload ==
    (upl.handler # "" /\ UploadSucceeded) =>
        \A e \in Pending : InStore(e)

\* The same for the handler that lists the plan from today 00:00 on.
PendingKeptWhenListedFromToday ==
    (upl.handler = "fromToday" /\ UploadSucceeded) =>
        \A e \in Pending : InStore(e)

\* The same for the planner screen once the day of Generate is over.
PendingKeptFromTomorrow ==
    (upl.handler = "fromTomorrow" /\ UploadSucceeded
        /\ upl.now >= tomorrow(today)) =>
        \A e \in Pending : InStore(e)

(***************************************************************************)
(* CalendarView: loadCalendarData, loadMoreEvents and the navigation.      *)
(***************************************************************************)
MaxNavigations == 2

\* date-fns on day numbers, months being 30 days long.
startOfMonth(d) == d - (d % 30)

endOfMonth(d) == startOfMonth(d) + 29

addMonths(d, n) == d + 30 * n

subMonths(d, n) == d - 30 * n

\* startOfWeek(d, { weekStartsOn: 1 }) on day numbers.
startOfWeekDay(d) == d - (d % 7)

\* neededStart and neededEnd of loadCalendarData.
neededRange(v) ==
    LET start0 == startOfMonth(subMonths(v.currentMonth, 2))
        end0 == endOfMonth(addMonths(v.currentMonth, 2))
        weekStart == startOfWeekDay(v.selectedWeek)
        weekEnd == weekStart + 6
    IN  [start |-> IF weekStart < start0
                   THEN startOfMonth(subMonths(weekStart, 2)) ELSE start0,
         end |-> IF weekEnd > end0
                 THEN endOfMonth(addMonths(weekEnd, 2)) ELSE end0]

\* loadedRange && loadedRange.start <= neededStart
\*             && loadedRange.end >= neededEnd
alreadyLoaded(loadedRange, needed) ==
    /\ loadedRange # null
    /\ loadedRange.start <= needed.start
    /\ loadedRange.end >= needed.end

\* The planned workouts the service holds between two days: one on the
\* 16th of every month, at 12:00.
plannedBetween(start, end) ==
    LET first == start + ((45 - (start % 30)) % 30)
        count == IF first > end THEN 0 ELSE ((end - first) \div 30) + 1
    IN  [k \in 1..count |->
            [id |-> first + 30 * (k - 1), category |-> "WORKOUT",
             name |-> "W Tue Tempo eco16",
             start_date_local |-> 24 * (first + 30 * (k - 1)) + 12,
             description |-> ""]]

\* What the two list requests of one fetchCalendarData call come to.
ListOutcomes ==
    {<<"ok", "ok">>, <<"network_error", "network_error">>,
     <<"bad_body", "ok">>}

\* What fetchCalendarData(apiKey, start, end) settles with, the service
\* holding no completed run: a rejection when btoa throws, [] from the catch
\* when a body does not parse, and otherwise the sorted entries of the
\* lists that arrived, a list that failed counting as empty.
fetchCalendarData(key, outcomes, start, end) ==
    IF btoaThrows(key) THEN Thrown(InvalidCharacterError)
    ELSE IF "bad_body" \in {outcomes[1], outcomes[2]} THEN Fulfilled(<<>>)
    ELSE Fulfilled(calendarEvents(
             <<>>, <<>>,
             IF outcomes[2] = "ok" THEN plannedBetween(start, end)
             ELSE <<>>))

\* The effect on [apiKey, currentMonth, selectedWeek]: loadCalendarData up
\* to its await.
loadCalendarData(v) ==
    LET needed == neededRange(v)
    IN  IF apiKey = NoKey THEN v
        ELSE IF alreadyLoaded(v.loadedRange, needed) THEN v
        ELSE [v EXCEPT
                 !.isLoading = TRUE,
                 !.error = none,
                 !.requested = needed,
                 !.loads = Append(@, [kind |-> "load",
                                      start |-> needed.start,
                                      end |-> needed.end])]

\* prev.map(e => e.id), newData.filter(e => !existingIds.has(e.id)),
\* [...prev, ...uniqueNew]
RECURSIVE mergeNew(_, _)
mergeNew(prev, newData) ==
    IF Len(newData) = 0 THEN prev
    ELSE IF \E k \in 1..Len(prev) : prev[k].id = Head(newData).id
         THEN mergeNew(prev, Tail(newData))
    ELSE mergeNew(Append(prev, Head(newData)), Tail(newData))

\* The sequence without its k-th element.
without(seq, k) == SubSeq(seq, 1, k - 1) \o SubSeq(seq, k + 1, Len(seq))

LoadFailedMessage ==
    "Failed to load calendar data. Please check your API key and try again."

ViewSpecInit ==
    /\ HistoryInit
    /\ args.fuelInterval = 12
    /\ apiKey \in ApiKeys
    /\ hpc = "idle"
    /\ inbox = NoResponses
    /\ selected = NoneSelected
    /\ result = null
    /\ home = HomeInit
    /\ ScreenAtRest /\ UploadAtRest
    /\ CalendarAtRest
    /\ \E mode \in {"month", "agenda"} :
          view = [ViewInit EXCEPT !.viewMode = mode]

\* The component is mounted and its effect runs.
ViewMounted ==
    /\ view.pc = "unmounted"
    /\ view' = loadCalendarData([view EXCEPT !.pc = "mounted"])
    /\ UNCHANGED <<planVars, analysisVars, screen, upl, cal>>

\* setViewMode(mode) of the three buttons.
ViewModeSet ==
    /\ view.pc = "mounted"
    /\ \E mode \in {"month", "week", "agenda"} :
          /\ mode # view.viewMode
          /\ view' = [view EXCEPT !.viewMode = mode]
    /\ UNCHANGED <<planVars, analysisVars, screen, upl, cal>>

\* navigateMonth of the arrows outside the week view, and the effect.
MonthNavigated ==
    /\ view.pc = "mounted"
    /\ view.viewMode # "week"
    /\ view.navigations < MaxNavigations
    /\ \E n \in {-1, 1} :
          view' = loadCalendarData(
                      [view EXCEPT
                          !.currentMonth = addMonths(@, n),
                          !.overlapped = @ \/ Len(view.loads) > 0,
                          !.navigations = @ + 1])
    /\ UNCHANGED <<planVars, analysisVars, screen, upl, cal>>

\* navigateWeek of the arrows in the week view, and the effect.
WeekNavigated ==
    /\ view.pc = "mounted"
    /\ view.viewMode = "week"
    /\ view.navigations < MaxNavigations
    /\ \E n \in {-7, 7} :
          view' = loadCalendarData(
                      [view EXCEPT
                          !.selectedWeek = @ + n,
                          !.overlapped = @ \/ Len(view.loads) > 0,
                          !.navigations = @ + 1])
    /\ UNCHANGED <<planVars, analysisVars, screen, upl, cal>>

\* Retry: setError(null); setCurrentMonth(new Date(currentMonth)), and the
\* effect the new Date object sets off.
Retried ==
    /\ view.pc = "mounted"
    /\ view.error # none
    /\ view.navigations < MaxNavigations
    /\ view' = loadCalendarData(
                   [view EXCEPT
                       !.error = none,
                       !.overlapped = @ \/ Len(view.loads) > 0,
                       !.navigations = @ + 1])
    /\ UNCHANGED <<planVars, analysisVars, screen, upl, cal>>

\* A fetchCalendarData call of loadCalendarData settles: the rest of its
\* try, its catch, its finally.
LoadSettles ==
    /\ \E k \in 1..Len(view.loads), outcomes \in ListOutcomes :
          LET load == view.loads[k]
              data == fetchCalendarData(apiKey, outcomes, load.start,
                                        load.end)
              rest == [view EXCEPT
                          !.loads = without(@, k),
                          !.isLoading = FALSE,
                          !.lastSettled = [load |-> load,
                                           outcomes |-> outcomes],
                          !.retrieved =
                              @ /\ outcomes = <<"ok", "ok">>
                                /\ "value" \in DOMAIN data]
          IN  /\ load.kind = "load"
              /\ IF "value" \in DOMAIN data
                 THEN view' = [rest EXCEPT
                                  !.events = data.value,
                                  !.loadedRange = [start |-> load.start,
                                                   end |-> load.end]]
                 ELSE view' = [rest EXCEPT
                                  !.error = some(LoadFailedMessage)]
    /\ UNCHANGED <<planVars, analysisVars, screen, upl, cal>>

\* The agenda is scrolled to its end: loadMoreEvents up to its await.
LoadMoreRequested ==
    /\ view.pc = "mounted"
    /\ view.viewMode = "agenda"
    /\ apiKey # NoKey
    /\ ~view.isLoadingMore
    /\ view.loadedRange # null
    /\ view.navigations < MaxNavigations
    /\ LET currentEnd == view.loadedRange.end
           newEnd == endOfMonth(addMonths(currentEnd, 3))
       IN  view' = [view EXCEPT
                       !.isLoadingMore = TRUE,
                       !.navigations = @ + 1,
                       !.overlapped = @ \/ Len(view.loads) > 0,
                       !.loads = Append(@, [kind |-> "more",
                                            start |-> currentEnd + 1,
                                            end |-> newEnd])]
    /\ UNCHANGED <<planVars, analysisVars, screen, upl, cal>>

\* The fetchCalendarData call of loadMoreEvents settles.
LoadMoreSettles ==
    /\ \E k \in 1..Len(view.loads), outcomes \in ListOutcomes :
          LET load == view.loads[k]
              data == fetchCalendarData(apiKey, outcomes, load.start,
                                        load.end)
              rest == [view EXCEPT
                          !.loads = without(@, k),
                          !.isLoadingMore = FALSE,
                          !.lastSettled = [load |-> load,
                                           outcomes |-> outcomes],
                          !.retrieved =
                              @ /\ outcomes = <<"ok", "ok">>
                                /\ "value" \in DOMAIN data]
          IN  /\ load.kind = "more"
              /\ IF "value" \in DOMAIN data
                 THEN view' = [rest EXCEPT
                                  !.events = mergeNew(@, data.value),
                                  !.loadedRange =
                                      [start |-> view.loadedRange.start,
                                       end |-> load.end]]
                 ELSE view' = rest
    /\ UNCHANGED <<planVars, analysisVars, screen, upl, cal>>

ViewNext ==
    \/ ViewMounted
    \/ ViewModeSet
    \/ MonthNavigated
    \/ WeekNavigated
    \/ Retried
    \/ LoadSettles
    \/ LoadMoreSettles
    \/ LoadMoreRequested

SpecView == ViewSpecInit /\ [][ViewNext]_vars

\* A fetchCalendarData call settles in this step.
LoadSettled == Len(view'.loads) < Len(view.loads)

\* The call that settled came back without one of its lists, or rejected.
FetchFailed ==
    \/ view'.lastSettled.outcomes # <<"ok", "ok">>
    \/ btoaThrows(apiKey)

\* C28: a date range is recorded as loaded only when its data was
\* retrieved: when a calendar fetch fails, loadedRangeRef stays as it was,
\* and when the fetch was loadCalendarData's the error is shown (so that
\* Retry, or a navigation, fetches the range again).
C28_FailedFetchNotMarkedLoaded ==
    [][(LoadSettled /\ FetchFailed)
           => /\ view'.loadedRange = view.loadedRange
              /\ view'.lastSettled.load.kind = "load"
                     => view'.error = some(LoadFailedMessage)]_vars

\* The one failure loadCalendarData's catch sees, a key btoa rejects, does
\* leave the range unmarked and the error shown.
RejectedLoadShowsError ==
    [][(LoadSettled /\ btoaThrows(apiKey))
           => /\ view'.loadedRange = view.loadedRange
              /\ view'.lastSettled.load.kind = "load"
                     => view'.error = some(LoadFailedMessage)]_vars

\* A range marked loaded after both list requests failed, and no error.
FailedRangeMarkedLoaded ==
    /\ view.lastSettled # null
    /\ view.lastSettled.outcomes = <<"network_error", "network_error">>
    /\ view.lastSettled.load.kind = "load"
    /\ view.loadedRange = [start |-> view.lastSettled.load.start,
                           end |-> view.lastSettled.load.end]
    /\ view.error = none
    /\ view.events = <<>>

\* The ids of the entries shown.
ShownIds == {view.events[k].id : k \in 1..Len(view.events)}

\* The ids of the entries of the planned workouts between two days.
IdsBetween(start, end) ==
    {plannedEvent(plannedBetween(start, end)[k]).id :
        k \in 1..Len(plannedBetween(start, end))}

\* Every load has settled, each with both of its lists.
AllLoadsCompleted ==
    /\ view.pc = "mounted"
    /\ view.requested # null
    /\ view.loads = <<>>
    /\ view.retrieved

\* C29: once every load has completed, loadedRangeRef covers the range
\* requested last and the month and week shown, and the entries displayed
\* are those of loadedRangeRef: a response that arrives late does not
\* replace a newer one.
C29_LatestRequestedRangeWins ==
    AllLoadsCompleted
        => /\ view.loadedRange # null
           /\ alreadyLoaded(view.loadedRange, view.requested)
           /\ alreadyLoaded(view.loadedRange, neededRange(view))
           /\ ShownIds = IdsBetween(view.loadedRange.start,
                                    view.loadedRange.end)

\* Loads that follow one another do end with the latest range.
LatestRangeWinsWithoutOverlap ==
    (AllLoadsCompleted /\ ~view.overlapped)
        => /\ view.loadedRange # null
           /\ alreadyLoaded(view.loadedRange, view.requested)
           /\ alreadyLoaded(view.loadedRange, neededRange(view))
           /\ ShownIds = IdsBetween(view.loadedRange.start,
                                    view.loadedRange.end)

\* An older response that settled last: the range loaded is no longer the
\* one requested last.
StaleResponseWon ==
    /\ AllLoadsCompleted
    /\ view.overlapped
    /\ ~alreadyLoaded(view.loadedRange, neededRange(view))

(***************************************************************************)
(* PlannerScreen: the busy flags of handleAnalyze and handleUpload.        *)
(* screen.uploads holds the position of every call of handleUpload, and    *)
(* screen.log the requests of uploadToIntervals, each with the call it     *)
(* belongs to.                                                             *)
(***************************************************************************)
MaxUploads == 2

\* A Sync button that can be pressed whatever isUploading is.
alwaysEnabled(isUploading) == TRUE

\* <button onClick={handleUpload} disabled={isUploading}>
uploadEnabled(isUploading) == ~isUploading

\* A request of the n-th call of handleUpload is sent, or settles.
UploadSent(n, request) == [upload |-> n, request |-> request,
                           event |-> "sent"]

UploadSettled(n, request) == [upload |-> n, request |-> request,
                              event |-> "settled"]

BusyInit ==
    /\ HistoryInit
    /\ args.fuelInterval = 12
    /\ apiKey \in ApiKeys
    /\ hpc = "idle"
    /\ inbox = NoResponses
    /\ selected = NoneSelected
    /\ result = null
    /\ home = HomeInit
    /\ screen = ScreenInit
    /\ UploadAtRest
    /\ CalendarAtRest /\ ViewAtRest

\* analyzeHistory resolves, which it does once btoa has taken the key.
BusyAnalysisResolves ==
    /\ ~btoaThrows(apiKey)
    /\ ScreenAnalysisApplied
    /\ screen'.result.longRun = null
    /\ screen'.result.easyRun = null

\* btoa throws on the key: analyzeHistory rejects, and handleAnalyze, which
\* catches nothing, ends at its await.
BusyAnalysisRejects ==
    /\ screen.pc = "awaiting"
    /\ btoaThrows(apiKey)
    /\ screen' = [screen EXCEPT !.pc = "rejected"]
    /\ UNCHANGED <<planVars, analysisVars, upl>>
    /\ UNCHANGED calendarVars

\* Sync is pressed: handleUpload up to the first await of uploadToIntervals,
\* or to its end when the key is missing or btoa throws on it.
UploadClicked ==
    /\ uploadEnabled(screen.isUploading)
    /\ Len(screen.uploads) < MaxUploads
    /\ LET n == Len(screen.uploads) + 1
       IN  screen' =
               IF apiKey = NoKey
               THEN [screen EXCEPT
                        !.statusMsg = "Missing API Key",
                        !.uploads = Append(@, "returned")]
               ELSE IF btoaThrows(apiKey)
               THEN [screen EXCEPT
                        !.statusMsg =
                            "Error: " \o errorToString(InvalidCharacterError),
                        !.uploads = Append(@, "returned")]
               ELSE [screen EXCEPT
                        !.isUploading = TRUE,
                        !.uploads = Append(@, "awaitDelete"),
                        !.log = Append(@, UploadSent(n, "DELETE"))]
    /\ UNCHANGED <<planVars, analysisVars, upl>>
    /\ UNCHANGED calendarVars

\* The DELETE of a call settles; whatever it came to, the POST is sent.
UploadDeleteSettles ==
    /\ \E n \in 1..Len(screen.uploads) :
          /\ screen.uploads[n] = "awaitDelete"
          /\ screen' = [screen EXCEPT
                           !.uploads[n] = "awaitInsert",
                           !.log = @ \o <<UploadSettled(n, "DELETE"),
                                          UploadSent(n, "POST")>>]
    /\ UNCHANGED <<planVars, analysisVars, upl>>
    /\ UNCHANGED calendarVars

\* The POST of a call settles: uploadToIntervals returns or throws, and
\* handleUpload reports it and clears the flag.
UploadInsertSettles ==
    /\ \E n \in 1..Len(screen.uploads), outcome \in Outcomes :
          /\ screen.uploads[n] = "awaitInsert"
          /\ screen' = [screen EXCEPT
                           !.uploads[n] = "returned",
                           !.log = Append(@, UploadSettled(n, "POST")),
                           !.statusMsg =
                               IF outcome = "ok" THEN "Success!"
                               ELSE "Error: " \o outcome,
                           !.isUploading = FALSE]
    /\ UNCHANGED <<planVars, analysisVars, upl>>
    /\ UNCHANGED calendarVars

BusyNext ==
    \/ ScreenMissingApiKey
    \/ ScreenAnalyzeRequested
    \/ BusyAnalysisResolves
    \/ BusyAnalysisRejects
    \/ UploadClicked
    \/ UploadDeleteSettles
    \/ UploadInsertSettles

\* A promise that is pending settles, and so does a request that was sent;
\* nobody has to press a button.
SpecBusy ==
    /\ BusyInit
    /\ [][BusyNext]_vars
    /\ WF_vars(BusyAnalysisResolves)
    /\ WF_vars(BusyAnalysisRejects)
    /\ WF_vars(UploadDeleteSettles)
    /\ WF_vars(UploadInsertSettles)

\* Between the DELETE of a call of handleUpload and the settling of its
\* POST, the log holds no request of another call.
UploadsNeverInterleave ==
    \A a, b \in 1..Len(screen.log) :
        (/\ a < b
         /\ screen.log[a].upload = screen.log[b].upload)
            => \A k \in a..b : screen.log[k].upload = screen.log[a].upload

\* C30: every analysis and every upload that was started clears its busy
\* flag once its requests have settled, and while isUploading is set no
\* second upload starts, so the requests of two uploads never interleave.
C30_BusyFlagsEventuallyCleared ==
    /\ screen.isAnalyzing ~> ~screen.isAnalyzing
    /\ screen.isUploading ~> ~screen.isUploading
    /\ []UploadsNeverInterleave

\* The upload half: handleUpload's flag is always cleared.
UploadFlagEventuallyCleared == screen.isUploading ~> ~screen.isUploading

\* The analysis half when btoa takes the key.
AnalysisFlagClearedWhenKeyEncodes ==
    (screen.isAnalyzing /\ ~btoaThrows(apiKey)) ~> ~screen.isAnalyzing

\* handleAnalyze has ended and isAnalyzing is still set.
AnalyzingLeftSet == screen.pc = "rejected" /\ screen.isAnalyzing

\* Two uploads ran one after the other.
TwoUploadsDone ==
    /\ Len(screen.uploads) = 2
    /\ Len(screen.log) = 8
    /\ ~screen.isUploading

====
